---------------------------- MODULE Spec2Model ----------------------------
(***************************************************************************)
(* Verification model of the kaggle_downloader pipeline of a190rithm:      *)
(*   - DownloadTracker   (download_tracker.py)                             *)
(*   - KaggleClient.download_dataset status writes (kaggle_client.py)      *)
(*   - DataConverter.convert_dataset / multi_process_convert and the       *)
(*     worker function _convert_worker (converter.py)                      *)
(*   - StorageManager.store_parquet_files / save_metadata (storage.py)     *)
(* Each subsystem has its own specification (SpecTracker, SpecConvert,     *)
(* SpecStore); the variables of the other subsystems stay at their         *)
(* initial values.                                                         *)
(***************************************************************************)
EXTENDS Integers, Sequences, FiniteSets, TLC

VARIABLES
    \* ---- Dataset object and DownloadTracker files on disk ----
    dsStatus,     \* Dataset.status (DatasetStatus value)
    files,        \* Dataset.files : sequence of DataFile records
    snapshot,     \* logs/download_status.json (last written document)
    log,          \* logs/download.log (sequence of appended lines)
    clock,        \* number of tracker calls made so far (logical datetime.now())
    lastOp,       \* the most recent tracker / client call and its arguments
    clientPc,     \* position of KaggleClient.download_dataset on this dataset
    statusRead,   \* what the most recent get_status() returned
    \* ---- DataConverter.convert_dataset / multi_process_convert ----
    cfiles,       \* the files argument (sequence of raw file records)
    cforce,       \* the force argument of the current call
    processes,    \* DataConverter.processes
    cpuCount,     \* mp.cpu_count() of the host
    disk,         \* output_dir: existing path |-> number of the call that last wrote it
    calls,        \* number of convert_dataset calls started
    cpc,          \* position of the current call
    eligible,     \* supported_files (indices into cfiles)
    effWorkers,   \* clamped worker count of multi_process_convert
    converted,    \* indices handed to convert_file in this call, in order
    okNow,        \* indices whose convert_file succeeded in this call
    okBefore,     \* indices whose convert_file succeeded in an earlier call
    futures,      \* state of each submitted future, by position in eligible
    collected,    \* number of futures whose result has been collected
    results,      \* worker result dictionaries kept by the coordinator
    failLog,      \* per-file failures logged by the coordinator (indices)
    ret,          \* list of artifacts returned by the call
    part,         \* the three lists convert_dataset sorted the input into
    diskAtCall,   \* output_dir as it was when the current call started
    finished,     \* futures in the order their workers completed
    \* ---- StorageManager.store_parquet_files ----
    sdirs,        \* dataset directories: path |-> [files, manifest]
    spc,          \* position of the current store_parquet_files call
    sargs,        \* arguments of the current call
    sidx,         \* index of the next artifact to copy
    scalls,       \* number of store_parquet_files calls started
    structure_template, \* StorageManager.structure_template
    listing,      \* the most recent list_datasets call and what it returned
    \* ---- DataConverter.multi_process_convert called directly ----
    wfiles,       \* the files argument: for each file, whether its format is supported
    wrequested,   \* the processes argument
    wcpus,        \* mp.cpu_count() of the host
    wcall,        \* what the call decided: clamped count and how the files are converted
    \* ---- DataConverter.convert_file called directly ----
    outdir,       \* output_dir: existing path |-> number of the call that last wrote it
    fcalls,       \* number of convert_file calls made
    lastConv,     \* the most recent call: file, how it ended, output_dir before it
    \* ---- DataConverter._convert_csv on a file read in chunks ----
    chunks,       \* the chunks pd.read_csv(chunksize=...) will yield
    cpos,         \* index of the next chunk of the loop
    writers,      \* every ParquetWriter opened by the call, in order
    row_count,    \* the local row_count
    csvFailed,    \* an exception has left the loop body
    csvpc,        \* position of the call
    csvArtifact,  \* the ParquetFile the call returned, if any
    \* ---- DataConverter.detect_format ----
    dpath,        \* the file_path argument, as a sequence of characters
    dexists,      \* whether a file exists at that path
    dresults,     \* the FileFormat values returned by the calls made so far
    \* ---- Config (config.py) ----
    defaultSections, \* the nested dicts of the class attribute DEFAULT_CONFIG
    ownSections,  \* nested dicts that belong to the instance alone
    configTop,    \* self.config: section |-> which nested dict it refers to
    configFile,   \* the YAML file at config_path: <<>> when absent
    configOps,    \* number of Config calls made
    lastConfigOp, \* the most recent Config call
    \* ---- retry wrapper (utils/retry_utils.py) ----
    rcfg,         \* arguments of the decorator / of RetryWithExponentialBackoff
    rpc,          \* position of the wrapper
    local_tries,  \* local_tries (retry, counts down) / tries (execute, counts up)
    local_delay,  \* local_delay / delay, in tenths of a second
    attempts,     \* what each invocation of the wrapped callable did, in order
    sleeps,       \* the sleep times, in order
    rresult       \* how the wrapper ended: the value returned or the exception raised

trackerVars == <<dsStatus, files, snapshot, log, clock, lastOp, clientPc, statusRead>>

workerVars == <<wfiles, wrequested, wcpus, wcall>>

convVars == <<workerVars, cfiles, cforce, processes, cpuCount, disk, calls, cpc, eligible,
              effWorkers, converted, okNow, okBefore, futures, collected,
              results, failLog, ret, part, diskAtCall, finished>>

storeVars == <<sdirs, spc, sargs, sidx, scalls, structure_template, listing>>

csvVars == <<chunks, cpos, writers, row_count, csvFailed, csvpc, csvArtifact>>

detectVars == <<dpath, dexists, dresults>>

configVars == <<defaultSections, ownSections, configTop, configFile, configOps, lastConfigOp>>

fileVars == <<outdir, fcalls, lastConv, csvVars, detectVars, configVars>>

retryVars == <<rcfg, rpc, local_tries, local_delay, attempts, sleeps, rresult>>

vars == <<trackerVars, statusRead,
                 convVars, storeVars, fileVars, retryVars>>

-----------------------------------------------------------------------------
(* Bounds of the model *)

\* Number of tracker calls explored from each initial dataset.
MaxOps == 3

\* Longest files list handed to convert_dataset.
MaxBatch == 2

\* Number of convert_dataset calls on the same output directory.
MaxCalls == 2

\* Longest artifact list handed to store_parquet_files.
MaxArtifacts == 2

\* Number of store_parquet_files calls.
MaxStores == 2

\* Number of direct convert_file calls on the same output directory.
MaxFileCalls == 3

\* Number of files handed to multi_process_convert directly.
MaxPoolFiles == 3

\* Number of calls made on Config.
MaxConfigOps == 4

\* Number of chunks of a CSV file read in chunks.
MaxChunks == 3

\* Largest try count given to the retry wrapper.
MaxTries == 2

-----------------------------------------------------------------------------
(* models.py : enumerations and DataFile *)

DatasetStatus == {"pending", "downloading", "downloaded", "converting", "completed", "failed"}

DownloadStatus == {"pending", "in_progress", "completed", "failed", "skipped"}

Filenames == {"a.csv", "b.csv"}

\* Progress values a caller may pass (the parameter is an unvalidated float).
ProgressValues == {-5, 0, 5, 15, 100, 150}

\* DataFile.size of the modelled files.
FileSize(fn) == IF fn = "a.csv" THEN 10 ELSE 20

\* DataFile(filename=fn, ...) with the dataclass defaults.
DataFile(fn) ==
    [filename |-> fn, size |-> FileSize(fn),
     download_status |-> "pending", download_progress |-> 0]

\* The Dataset.files lists a caller constructs (duplicates are not excluded).
InitFileLists ==
    { <<>>, <<DataFile("a.csv")>>, <<DataFile("a.csv"), DataFile("b.csv")>>,
      <<DataFile("a.csv"), DataFile("a.csv")>> }

-----------------------------------------------------------------------------
(* download_tracker.py *)

NoSnapshot == [exists |-> FALSE]

\* StatusDoc with the per-file entries written in reverse order.
StatusDoc_Reversed(st, fs, now) ==
    [exists |-> TRUE, status |-> st, timestamp |-> now,
     files |-> [i \in 1..Len(fs) |->
                  [filename |-> fs[Len(fs) + 1 - i].filename,
                   status |-> fs[Len(fs) + 1 - i].download_status,
                   progress |-> fs[Len(fs) + 1 - i].download_progress,
                   size |-> fs[Len(fs) + 1 - i].size]]]

\* update_status: the document written to download_status.json.
StatusDoc(st, fs, now) ==
    [exists |-> TRUE, status |-> st, timestamp |-> now,
     files |-> [i \in 1..Len(fs) |->
                  [filename |-> fs[i].filename, status |-> fs[i].download_status,
                   progress |-> fs[i].download_progress, size |-> fs[i].size]]]

\* log_event: one line appended to download.log.
LogLine(level, kind, fn) == [level |-> level, kind |-> kind, filename |-> fn]

\* Python int(x / 10) for an integer-valued x: truncation toward zero.
IntDiv10(p) == IF p >= 0 THEN p \div 10 ELSE -((-p) \div 10)

\* "for file in dataset.files: if file.filename == filename: ...; break"
Matches(fs, fn) == {i \in 1..Len(fs) : fs[i].filename = fn}

\* FirstMatch that picks the last matching file instead of the first.
FirstMatch_Last(fs, fn) == CHOOSE i \in Matches(fs, fn) : \A j \in Matches(fs, fn) : i >= j

FirstMatch(fs, fn) == CHOOSE i \in Matches(fs, fn) : \A j \in Matches(fs, fn) : i <= j

\* The dataset is visible to tracker callers (not inside download_dataset).
TrackerCallable == clientPc \in {"none", "done"} /\ clock < MaxOps

Call(op, fn, p) == [op |-> op, filename |-> fn, progress |-> p]

\* ProgressStatus with the completion test off by one (p > 100).
ProgressStatus_StrictCompletion(old, p) ==
    IF p > 100 THEN "completed"
    ELSE IF p > 0 THEN "in_progress"
    ELSE old

\* Status a file gets from update_file_progress(progress = p).
ProgressStatus(old, p) ==
    IF p >= 100 THEN "completed"
    ELSE IF p > 0 THEN "in_progress"
    ELSE old

\* Lines update_file_progress appends for one update old -> p.
ProgressLines(fn, old, p) ==
    (IF IntDiv10(old) < IntDiv10(p) THEN <<LogLine("INFO", "progress", fn)>> ELSE <<>>)
    \o (IF p >= 100 THEN <<LogLine("INFO", "file_completed", fn)>> ELSE <<>>)

start_tracking ==
    /\ TrackerCallable
    /\ dsStatus' = "downloading"
    /\ files' = [i \in 1..Len(files) |->
                   [files[i] EXCEPT !.download_status = "pending",
                                    !.download_progress = 0]]
    /\ clock' = clock + 1
    /\ snapshot' = StatusDoc(dsStatus', files', clock')
    /\ log' = Append(log, LogLine("INFO", "start", ""))
    /\ lastOp' = Call("start_tracking", "", 0)
    /\ UNCHANGED <<clientPc, statusRead,
                 convVars, storeVars, fileVars, retryVars>>

update_file_progress(fn, p) ==
    /\ TrackerCallable
    /\ clock' = clock + 1
    /\ lastOp' = Call("update_file_progress", fn, p)
    /\ IF Matches(files, fn) = {}
       THEN UNCHANGED <<files, snapshot, log>>
       ELSE LET i == FirstMatch(files, fn)
                old == files[i].download_progress
            IN /\ files' = [files EXCEPT
                              ![i].download_progress = p,
                              ![i].download_status =
                                  ProgressStatus(files[i].download_status, p)]
               /\ log' = log \o ProgressLines(fn, old, p)
               /\ snapshot' = StatusDoc(dsStatus, files', clock')
    /\ UNCHANGED <<dsStatus, clientPc, statusRead,
                 convVars, storeVars, fileVars, retryVars>>

\* complete_file / fail_file / skip_file share one shape.
SetFile(op, fn, st, setProgress, level, kind) ==
    /\ TrackerCallable
    /\ clock' = clock + 1
    /\ lastOp' = Call(op, fn, 0)
    /\ IF Matches(files, fn) = {}
       THEN UNCHANGED <<files, snapshot, log>>
       ELSE LET i == FirstMatch(files, fn)
            IN /\ files' = [files EXCEPT
                              ![i].download_status = st,
                              ![i].download_progress =
                                  IF setProgress THEN 100 ELSE files[i].download_progress]
               /\ log' = Append(log, LogLine(level, kind, fn))
               /\ snapshot' = StatusDoc(dsStatus, files', clock')
    /\ UNCHANGED <<dsStatus, clientPc, statusRead,
                 convVars, storeVars, fileVars, retryVars>>

complete_file(fn) == SetFile("complete_file", fn, "completed", TRUE, "INFO", "file_completed")

fail_file(fn) == SetFile("fail_file", fn, "failed", FALSE, "ERROR", "file_failed")

skip_file(fn) == SetFile("skip_file", fn, "skipped", TRUE, "INFO", "file_skipped")

AllCompleted(fs) ==
    \A i \in 1..Len(fs) : fs[i].download_status \in {"completed", "skipped"}

HasFailed(fs) == \E i \in 1..Len(fs) : fs[i].download_status = "failed"

\* CompletedStatus that writes DOWNLOADING in the "still in progress" branch.
CompletedStatus_ForcesDownloading(st, fs) ==
    IF AllCompleted(fs) THEN "downloaded"
    ELSE IF HasFailed(fs) THEN "failed"
    ELSE "downloading"

\* Dataset status complete_download leaves behind.
CompletedStatus(st, fs) ==
    IF AllCompleted(fs) THEN "downloaded"
    ELSE IF HasFailed(fs) THEN "failed"
    ELSE st

complete_download ==
    /\ TrackerCallable
    /\ clock' = clock + 1
    /\ lastOp' = Call("complete_download", "", 0)
    /\ dsStatus' = CompletedStatus(dsStatus, files)
    /\ log' = Append(log,
                 IF AllCompleted(files) THEN LogLine("INFO", "dataset_downloaded", "")
                 ELSE IF HasFailed(files) THEN LogLine("ERROR", "dataset_failed", "")
                 ELSE LogLine("INFO", "dataset_in_progress", ""))
    /\ snapshot' = StatusDoc(dsStatus', files, clock')
    /\ UNCHANGED <<files, clientPc, statusRead,
                 convVars, storeVars, fileVars, retryVars>>

fail_download ==
    /\ TrackerCallable
    /\ clock' = clock + 1
    /\ lastOp' = Call("fail_download", "", 0)
    /\ dsStatus' = "failed"
    /\ log' = Append(log, LogLine("ERROR", "dataset_failed", ""))
    /\ snapshot' = StatusDoc(dsStatus', files, clock')
    /\ UNCHANGED <<files, clientPc, statusRead,
                 convVars, storeVars, fileVars, retryVars>>

\* get_status() when download_status.json does not exist (or does not parse).
EmptyStatus == [exists |-> FALSE]

\* json.load of the status file: the dictionary get_status returns.
LoadStatus(snap) ==
    IF snap.exists
    THEN [status |-> snap.status, timestamp |-> snap.timestamp, files |-> snap.files]
    ELSE EmptyStatus

get_status ==
    /\ TrackerCallable
    /\ clock' = clock + 1
    /\ lastOp' = Call("get_status", "", 0)
    /\ statusRead' = LoadStatus(snapshot)
    /\ UNCHANGED <<dsStatus, files, snapshot, log, clientPc,
                   convVars, storeVars, fileVars, retryVars>>

-----------------------------------------------------------------------------
(* kaggle_client.py : the status writes of download_dataset *)

\* Files found in the temporary directory (distinct relative paths).
DownloadedLists == {fs \in InitFileLists : \A i, j \in 1..Len(fs) : i # j => fs[i].filename # fs[j].filename}

\* line 274-275: a fresh Dataset (status PENDING, no files) is set DOWNLOADING.
download_dataset_begin ==
    /\ clientPc = "created"
    /\ dsStatus' = "downloading"
    /\ clientPc' = "moving"
    /\ lastOp' = Call("download_dataset_begin", "", 0)
    /\ UNCHANGED <<files, snapshot, log, clock, statusRead,
                 convVars, storeVars, fileVars, retryVars>>

\* lines 302-329: every moved file is COMPLETED/100, the dataset DOWNLOADED.
download_dataset_finish(fs) ==
    /\ clientPc = "moving"
    /\ files' = [i \in 1..Len(fs) |->
                   [fs[i] EXCEPT !.download_status = "completed",
                                 !.download_progress = 100]]
    /\ dsStatus' = "downloaded"
    /\ clientPc' = "done"
    /\ lastOp' = Call("download_dataset_finish", "", 0)
    /\ UNCHANGED <<snapshot, log, clock, statusRead,
                 convVars, storeVars, fileVars, retryVars>>

-----------------------------------------------------------------------------
(* converter.py : formats, single-file conversion *)

\* detect_format / KaggleClient._detect_file_format on a lower-case extension.
detect_format(ext) ==
    CASE ext = "csv" -> "csv"
      [] ext \in {"json", "jsonl"} -> "json"
      [] ext \in {"xls", "xlsx"} -> "excel"
      [] ext = "tsv" -> "tsv"
      [] ext = "parquet" -> "parquet"
      [] ext = "avro" -> "avro"
      [] ext = "orc" -> "orc"
      [] ext \in {"xml", "svg"} -> "xml"
      [] ext \in {"html", "htm"} -> "html"
      [] ext \in {"txt", "md", "rst"} -> "txt"
      [] OTHER -> "other"

SUPPORTED_FORMATS == {"csv", "json", "excel", "tsv", "parquet"}

is_supported_format(fmt) == fmt \in SUPPORTED_FORMATS

\* A raw file: basename stem and extension, what is wrong with its source
\* ("none", "missing" file, "malformed" content) and, for workbooks, the
\* number of sheets.
RawFile(stem, ext, fault, sheets) ==
    [stem |-> stem, ext |-> ext, format |-> detect_format(ext),
     fault |-> fault, sheets |-> sheets]

\* The raw files batches are drawn from.
ConvUniverse ==
    { RawFile("a", "csv", "none", 1),
      RawFile("a", "json", "none", 1),
      RawFile("b", "tsv", "malformed", 1),
      RawFile("b", "parquet", "none", 1),
      RawFile("c", "parquet", "missing", 1),
      RawFile("d", "xlsx", "none", 2),
      RawFile("g", "xlsx", "none", 2),
      RawFile("e", "txt", "none", 1) }

SeqsUpTo(S, n) == UNION {[1..k -> S] : k \in 0..n}

Batches == SeqsUpTo(ConvUniverse, MaxBatch)

\* DataConverter(processes=...) values and host CPU counts.
ProcessesValues == {0, 1, 2, 3}

CpuCounts == {1, 2}

\* The sheet names of workbook f (line 696); workbook "q" has two names that
\* differ only in a character that is not alphanumeric.
SheetName(f, k) ==
    IF f.stem = "q" THEN (IF k = 1 THEN "Q1 2023" ELSE IF k = 2 THEN "Q1-2023" ELSE "Q2")
    ELSE IF k = 1 THEN "Sheet1" ELSE IF k = 2 THEN "Sheet2" ELSE "SheetN"

\* _convert_excel line 752: every character that is not alphanumeric
\* becomes "_" (on the sheet names of the model).
SafeSheetName(s) == IF s \in {"Q1 2023", "Q1-2023"} THEN "Q1_2023" ELSE s

\* convert_dataset line 1043-1044: <output_dir>/<stem>.parquet
SkipPath(f) == <<f.stem, "parquet">>

\* SheetPath without the per-workbook subdirectory.
SheetPath_NoSubdirectory(f, k) == <<SafeSheetName(SheetName(f, k)), "parquet">>

\* _convert_excel line 747-754: <output_dir>/<stem>/<sheet>.parquet
SheetPath(f, k) == <<f.stem, SafeSheetName(SheetName(f, k)), "parquet">>

\* The output paths convert_file writes for f.
OutputPaths(f) ==
    IF f.format = "parquet" THEN {<<f.stem, f.ext>>}
    ELSE IF f.format = "excel" /\ f.sheets > 1
         THEN {SheetPath(f, k) : k \in 1..f.sheets}
    ELSE {<<f.stem, "parquet">>}

\* The path of the artifact convert_file returns for f.
ArtifactPath(f) ==
    IF f.format = "parquet" THEN <<f.stem, f.ext>>
    ELSE IF f.format = "excel" /\ f.sheets > 1 THEN SheetPath(f, 1)
    ELSE <<f.stem, "parquet">>

\* ConvertOutcome without the format test at the head of convert_file.
ConvertOutcome_NoFormatTest(f) ==
    IF f.format = "parquet"
    THEN (IF f.fault = "missing" THEN "FileNotFoundError"
          ELSE IF f.fault = "malformed" THEN "ArrowInvalid"
          ELSE "ok")
    ELSE IF f.fault = "none" THEN "ok" ELSE "ConversionError"

\* How convert_file(f) ends: "ok" or the exception type that leaves it.
ConvertOutcome(f) ==
    IF ~is_supported_format(f.format) THEN "UnsupportedFormatError"
    ELSE IF f.format = "parquet"
         THEN (IF f.fault = "missing" THEN "FileNotFoundError"
               ELSE IF f.fault = "malformed" THEN "ArrowInvalid"
               ELSE "ok")
    ELSE IF f.fault = "none" THEN "ok" ELSE "ConversionError"

\* Paths convert_file(f) has written when it ends (a malformed parquet file
\* is copied before its metadata is read).
PathsWritten(f) ==
    IF ConvertOutcome(f) = "ok" THEN OutputPaths(f)
    ELSE IF f.format = "parquet" /\ f.fault = "malformed" THEN OutputPaths(f)
    ELSE {}

Rows(f) == IF f.stem = "a" THEN 5 ELSE 3

\* The file name of an output path.
BaseName(p) == SubSeq(p, Len(p) - 1, Len(p))

\* The ParquetFile convert_file returns for the i-th input file.
Artifact(i, f) ==
    [src |-> i, original_file |-> f,
     filename |-> BaseName(ArtifactPath(f)), path |-> ArtifactPath(f),
     size |-> 10 * Rows(f), schema |-> <<f.stem, f.format>>,
     rows |-> Rows(f), compression_ratio |-> Rows(f),
     partition_cols |-> <<>>, conversion_status |-> "completed",
     metadata |-> IF f.format = "excel" /\ f.sheets > 1
                  THEN [k \in 1..f.sheets |->
                          [sheet_name |-> SheetName(f, k),
                           filename |-> <<SafeSheetName(SheetName(f, k)), "parquet">>,
                           path |-> SheetPath(f, k),
                           rows |-> Rows(f)]]
                  ELSE <<>>]

\* _convert_worker line 76-99: the dictionary returned for a successful
\* conversion.
WorkerDict(i, f) ==
    LET a == Artifact(i, f)
    IN [success |-> TRUE, src |-> i,
        original_file |-> [stem |-> a.original_file.stem, ext |-> a.original_file.ext,
                           format |-> a.original_file.format,
                           fault |-> a.original_file.fault,
                           sheets |-> a.original_file.sheets],
        filename |-> a.filename, path |-> a.path, size |-> a.size,
        schema |-> a.schema, rows |-> a.rows,
        compression_ratio |-> a.compression_ratio,
        partition_cols |-> a.partition_cols,
        conversion_status |-> a.conversion_status, metadata |-> a.metadata]

\* multi_process_convert line 1192-1225: the ParquetFile rebuilt from a dictionary.
Rebuild(d) ==
    [src |-> d.src,
     original_file |-> [stem |-> d.original_file.stem, ext |-> d.original_file.ext,
                        format |-> d.original_file.format,
                        fault |-> d.original_file.fault,
                        sheets |-> d.original_file.sheets],
     filename |-> d.filename, path |-> d.path, size |-> d.size,
     schema |-> d.schema, rows |-> d.rows,
     compression_ratio |-> d.compression_ratio,
     partition_cols |-> d.partition_cols,
     conversion_status |-> d.conversion_status,
     metadata |-> IF d.metadata # <<>> THEN d.metadata ELSE <<>>]

-----------------------------------------------------------------------------
(* converter.py : convert_dataset and multi_process_convert *)

Indices(n) == [i \in 1..n |-> i]

\* convert_dataset line 1035-1052: the three lists of the partition.
Partition(fs, force, dsk) ==
    LET unsupported(i) == ~is_supported_format(fs[i].format)
        already(i) == /\ ~unsupported(i)
                      /\ ~force
                      /\ SkipPath(fs[i]) \in DOMAIN dsk
    IN [unsupported |-> SelectSeq(Indices(Len(fs)), unsupported),
        already |-> SelectSeq(Indices(Len(fs)), already),
        supported |-> SelectSeq(Indices(Len(fs)),
                                LAMBDA i : ~unsupported(i) /\ ~already(i))]

Min2(a, b) == IF a <= b THEN a ELSE b

Max2(a, b) == IF a >= b THEN a ELSE b

\* The clamp without its lower bound of 1.
EffectiveWorkers_NoFloor(requested, n, cpus) == Min2(Min2(requested, n), cpus)

\* multi_process_convert line 1104.
EffectiveWorkers(requested, n, cpus) == Max2(1, Min2(Min2(requested, n), cpus))

\* Exceptions the sequential loop catches (line 1075 and 1126).
CaughtInLoop == {"UnsupportedFormatError", "ConversionError"}

WriteDisk(dsk, paths, c) ==
    [p \in (DOMAIN dsk) \cup paths |-> IF p \in paths THEN c ELSE dsk[p]]

convert_dataset(force) ==
    /\ cpc \in {"idle", "done", "raised"}
    /\ calls < MaxCalls
    /\ calls' = calls + 1
    /\ cforce' = force
    /\ okBefore' = okBefore \cup okNow
    /\ okNow' = {}
    /\ converted' = <<>>
    /\ failLog' = <<>>
    /\ results' = <<>>
    /\ collected' = 0
    /\ ret' = <<>>
    /\ part' = Partition(cfiles, force, disk)
    /\ diskAtCall' = disk
    /\ finished' = <<>>
    /\ eligible' = part'.supported
    /\ LET n == Len(eligible')
           eff == EffectiveWorkers(processes, n, cpuCount)
       IN IF n = 0
          THEN cpc' = "done" /\ futures' = <<>> /\ effWorkers' = 0
          ELSE IF n = 1 \/ processes <= 1
          THEN cpc' = "seq" /\ futures' = <<>> /\ effWorkers' = 0
          ELSE IF eff <= 1
          THEN cpc' = "seq" /\ futures' = <<>> /\ effWorkers' = eff
          ELSE /\ cpc' = "pool"
               /\ futures' = [k \in 1..n |-> "queued"]
               /\ effWorkers' = eff
    /\ UNCHANGED <<cfiles, processes, cpuCount, disk, workerVars, trackerVars, storeVars, fileVars, retryVars>>

\* AppendResult that puts the newest artifact first.
AppendResult_Prepend(res, a) == <<a>> \o res

\* line 1073 / 1124: result.append(parquet_file)
AppendResult(res, a) == Append(res, a)

\* One iteration of the sequential loop (line 1071-1076 / 1122-1127).
convert_step ==
    /\ cpc = "seq"
    /\ LET k == Len(converted) + 1
           i == eligible[k]
           f == cfiles[i]
           out == ConvertOutcome(f)
       IN /\ converted' = Append(converted, i)
          /\ disk' = WriteDisk(disk, PathsWritten(f), calls)
          /\ okNow' = IF out = "ok" THEN okNow \cup {i} ELSE okNow
          /\ ret' = IF out = "ok" THEN AppendResult(ret, Artifact(i, f))
                    ELSE IF out \in CaughtInLoop THEN ret
                    ELSE <<>>
          /\ failLog' = IF out \in CaughtInLoop THEN Append(failLog, i) ELSE failLog
          /\ cpc' = IF out # "ok" /\ out \notin CaughtInLoop THEN "raised"
                    ELSE IF k = Len(eligible) THEN "done"
                    ELSE "seq"
    /\ UNCHANGED <<cfiles, cforce, processes, cpuCount, calls, eligible, effWorkers,
                   okBefore, futures, collected, results, part, diskAtCall, finished,
                   workerVars, trackerVars, storeVars, fileVars, retryVars>>

Running == {k \in 1..Len(futures) : futures[k] = "running"}

Queued == {k \in 1..Len(futures) : futures[k] = "queued"}

\* An idle worker process takes the oldest queued task.
worker_start ==
    /\ cpc = "pool"
    /\ Queued # {}
    /\ Cardinality(Running) < effWorkers
    /\ LET k == CHOOSE q \in Queued : \A r \in Queued : q <= r
       IN /\ futures' = [futures EXCEPT ![k] = "running"]
          /\ converted' = Append(converted, eligible[k])
    /\ UNCHANGED <<cfiles, cforce, processes, cpuCount, disk, calls, cpc, eligible,
                   effWorkers, okNow, okBefore, collected, results, failLog, ret,
                   part, diskAtCall, finished,
                   workerVars, trackerVars, storeVars, fileVars, retryVars>>

\* _convert_worker returns: a success dictionary, or a failure record for
\* any exception of convert_file (line 100-109).
worker_finish(k) ==
    /\ cpc = "pool"
    /\ k \in Running
    /\ LET i == eligible[k]
           f == cfiles[i]
           out == ConvertOutcome(f)
       IN /\ disk' = WriteDisk(disk, PathsWritten(f), calls)
          /\ okNow' = IF out = "ok" THEN okNow \cup {i} ELSE okNow
          /\ futures' = [futures EXCEPT ![k] = IF out = "ok" THEN "success" ELSE "failure"]
          /\ finished' = Append(finished, k)
    /\ UNCHANGED <<cfiles, cforce, processes, cpuCount, calls, cpc, eligible,
                   effWorkers, converted, okBefore, collected, results, failLog, ret,
                   part, diskAtCall,
                   workerVars, trackerVars, storeVars, fileVars, retryVars>>

\* A worker process dies: the pool is broken and every unfinished future
\* raises from result().
worker_crash(k) ==
    /\ cpc = "pool"
    /\ k \in Running
    /\ futures' = [j \in 1..Len(futures) |->
                     IF futures[j] \in {"queued", "running"} THEN "exc" ELSE futures[j]]
    /\ UNCHANGED <<cfiles, cforce, processes, cpuCount, disk, calls, cpc, eligible,
                   effWorkers, converted, okNow, okBefore, collected, results,
                   failLog, ret, part, diskAtCall, finished,
                   workerVars, trackerVars, storeVars, fileVars, retryVars>>

\* KeepResult without the test of result['success'].
KeepResult_NoSuccessTest(res, outcome, d) == Append(res, d)

\* line 1178-1181: a result is kept only when the worker reported success.
KeepResult(res, outcome, d) == IF outcome = "success" THEN Append(res, d) ELSE res

\* line 1182-1185: a failure record or an exception of result() is logged.
LogFailure(lg, outcome, i) == IF outcome = "success" THEN lg ELSE Append(lg, i)

\* One iteration of the collection loop (line 1171-1185): futures are
\* waited for in submission order.
collect_result ==
    /\ cpc = "pool"
    /\ collected < Len(futures)
    /\ LET k == collected + 1
           i == eligible[k]
       IN /\ futures[k] \in {"success", "failure", "exc"}
          /\ collected' = k
          /\ results' = KeepResult(results, futures[k], WorkerDict(i, cfiles[i]))
          /\ failLog' = LogFailure(failLog, futures[k], i)
          /\ cpc' = IF k = Len(futures) THEN "rebuild" ELSE "pool"
    /\ UNCHANGED <<cfiles, cforce, processes, cpuCount, disk, calls, eligible,
                   effWorkers, converted, okNow, okBefore, futures, ret,
                   part, diskAtCall, finished,
                   workerVars, trackerVars, storeVars, fileVars, retryVars>>

\* line 1190-1237: rebuild the ParquetFile objects and return them.
rebuild_results ==
    /\ cpc = "rebuild"
    /\ ret' = [k \in 1..Len(results) |-> Rebuild(results[k])]
    /\ cpc' = "done"
    /\ UNCHANGED <<cfiles, cforce, processes, cpuCount, disk, calls, eligible,
                   effWorkers, converted, okNow, okBefore, futures, collected,
                   results, failLog, part, diskAtCall, finished,
                   workerVars, trackerVars, storeVars, fileVars, retryVars>>

-----------------------------------------------------------------------------
(* converter.py : multi_process_convert called directly *)

\* The processes argument, zero and negative values included.
RequestedValues == {-2, -1, 0, 1, 2, 3, 4}

HostCpuCounts == {1, 2, 3}

\* The files argument: TRUE marks a file of a supported format.
PoolFileLists == UNION {[1..k -> BOOLEAN] : k \in 0..MaxPoolFiles}

NotCalled == [called |-> FALSE]

WorkerIdle ==
    /\ wfiles = <<>>
    /\ wrequested = 1
    /\ wcpus = 1
    /\ wcall = NotCalled

\* line 1112: supported_files.
SupportedOf(fs) == SelectSeq(fs, LAMBDA b : b)

\* line 1114-1154: nothing to convert, the in-process loop, or a
\* ProcessPoolExecutor with max_workers = eff.
ConvertMode(supported, eff) ==
    IF supported = 0 THEN "empty"
    ELSE IF supported = 1 \/ eff <= 1 THEN "sequential"
    ELSE "pool"

\* line 1100-1154: the clamp of the worker count and the choice of the mode.
multi_process_convert ==
    /\ ~wcall.called
    /\ LET eff == EffectiveWorkers(wrequested, Len(wfiles), wcpus)
           mode == ConvertMode(Len(SupportedOf(wfiles)), eff)
       IN wcall' = [called |-> TRUE, effective |-> eff, mode |-> mode,
                    max_workers |-> IF mode = "pool" THEN eff ELSE 0]
    /\ UNCHANGED <<wfiles, wrequested, wcpus, cfiles, cforce, processes, cpuCount,
                   disk, calls, cpc, eligible, effWorkers, converted, okNow,
                   okBefore, futures, collected, results, failLog, ret, part,
                   diskAtCall, finished,
                   trackerVars, storeVars, fileVars, retryVars>>
-----------------------------------------------------------------------------
(* converter.py : detect_format on a path *)

\* How often detect_format is called on the same path.
MaxDetectCalls == 2

\* File names without their extension ("" is a name that begins with the dot).
StemTexts == { <<"a">>, <<"b", ".", "t", "a", "r">>, <<>> }

\* Extensions as they are spelled in a path, without the dot.
ExtensionTexts ==
    { <<"c", "s", "v">>, <<"C", "S", "V">>, <<"C", "s", "v">>,
      <<"j", "s", "o", "n">>, <<"J", "S", "O", "N">>,
      <<"j", "s", "o", "n", "l">>, <<"J", "s", "o", "n", "L">>,
      <<"x", "l", "s", "x">>, <<"X", "L", "S", "X">>,
      <<"x", "l", "s">>, <<"X", "l", "s">>,
      <<"t", "s", "v">>, <<"T", "S", "V">>,
      <<"p", "a", "r", "q", "u", "e", "t">>, <<"P", "A", "R", "Q", "U", "E", "T">>,
      <<"a", "v", "r", "o">>, <<"t", "x", "t">>, <<"T", "X", "T">>,
      <<"x", "y", "z">>, <<"g", "z">>, <<"c", "s", "v", "x">>, <<>> }

\* The paths detect_format is called on: name, dot, extension (a name with
\* the empty extension ends in the dot), and names without any dot.
PathUniverse ==
    {s \o <<".">> \o e : s \in StemTexts, e \in ExtensionTexts}
        \cup { <<"a">>, <<"c", "s", "v">> }

\* str.lower() on one character.
LowerChar(c) ==
    CASE c = "A" -> "a" [] c = "C" -> "c" [] c = "E" -> "e" [] c = "J" -> "j"
      [] c = "L" -> "l" [] c = "N" -> "n" [] c = "O" -> "o" [] c = "P" -> "p"
      [] c = "Q" -> "q" [] c = "R" -> "r" [] c = "S" -> "s" [] c = "T" -> "t"
      [] c = "U" -> "u" [] c = "V" -> "v" [] c = "X" -> "x"
      [] OTHER -> c

LowerText(t) == [k \in 1..Len(t) |-> LowerChar(t[k])]

\* PurePath.suffix: the text from the last dot on, unless that dot is the
\* first or the last character of the name.
Suffix(name) ==
    LET dots == {k \in 1..Len(name) : name[k] = "."}
    IN IF dots = {} THEN <<>>
       ELSE LET i == CHOOSE k \in dots : \A j \in dots : j <= k
            IN IF 1 < i /\ i < Len(name) THEN SubSeq(name, i, Len(name)) ELSE <<>>

\* The extension named by a lower-case suffix, as detect_format compares it.
ExtensionOf(suffix) ==
    CASE suffix = <<".", "c", "s", "v">> -> "csv"
      [] suffix = <<".", "j", "s", "o", "n">> -> "json"
      [] suffix = <<".", "j", "s", "o", "n", "l">> -> "jsonl"
      [] suffix = <<".", "x", "l", "s">> -> "xls"
      [] suffix = <<".", "x", "l", "s", "x">> -> "xlsx"
      [] suffix = <<".", "t", "s", "v">> -> "tsv"
      [] suffix = <<".", "p", "a", "r", "q", "u", "e", "t">> -> "parquet"
      [] suffix = <<".", "a", "v", "r", "o">> -> "avro"
      [] suffix = <<".", "t", "x", "t">> -> "txt"
      [] OTHER -> ""

\* The suffix compared as it is spelled, without lower().
DetectPath_CaseSensitive(path) == detect_format(ExtensionOf(Suffix(path)))

\* line 179-206: detect_format(file_path).
DetectPath(path) == detect_format(ExtensionOf(LowerText(Suffix(path))))

DetectIdle ==
    /\ dpath = <<>>
    /\ dexists = FALSE
    /\ dresults = <<>>

\* One call of detect_format on the path; the file is not looked at.
detect_format_call ==
    /\ Len(dresults) < MaxDetectCalls
    /\ dresults' = Append(dresults, DetectPath(dpath))
    /\ UNCHANGED <<dpath, dexists, outdir, fcalls, lastConv, csvVars, configVars,
                   trackerVars, convVars, storeVars, retryVars>>
-----------------------------------------------------------------------------
(* storage.py : store_parquet_files / save_metadata *)

\* Converted artifacts handed to the storage manager; srcExists tells whether
\* the artifact's physical file is still at pf.path when it is copied.
StoreArtifact(fn, rows, srcExists) == [filename |-> fn, rows |-> rows, srcExists |-> srcExists]

StoreUniverse ==
    { StoreArtifact("p.parquet", 5, TRUE),
      StoreArtifact("q.parquet", 3, TRUE),
      StoreArtifact("r.parquet", 7, FALSE) }

ArtifactLists == SeqsUpTo(StoreUniverse, MaxArtifacts)

DatasetNames == {"my data", "my_data", "Other"}

Timestamps == {1, 2}

\* get_dataset_path line 83: characters outside [alnum-_] become "_".
SafeName(name) == IF name = "my data" THEN "my_data" ELSE name

\* Dataset.owner of the datasets of the model.
Owner(name) == "alice"

DefaultTemplate == "kaggle/{dataset_name}_{timestamp}"

\* Values of the structure_template constructor argument (line 38, 51).
Templates ==
    { DefaultTemplate,
      "{owner}/{dataset_name}_{timestamp}",
      "kaggle/{owner}/{dataset_name}_{timestamp}" }

\* One path component below base_dir: the text n, followed by "_" and the
\* formatted timestamp t when t > 0.
Comp(n, t) == [n |-> n, t |-> t]

\* get_dataset_path (line 57-103): the template with the sanitized name, the
\* owner and the formatted timestamp substituted, relative to base_dir.
get_dataset_path(template, name, ts) ==
    CASE template = "{owner}/{dataset_name}_{timestamp}" ->
             <<Comp(Owner(name), 0), Comp(SafeName(name), ts)>>
      [] template = "kaggle/{owner}/{dataset_name}_{timestamp}" ->
             <<Comp("kaggle", 0), Comp(Owner(name), 0), Comp(SafeName(name), ts)>>
      [] OTHER ->
             <<Comp("kaggle", 0), Comp(SafeName(name), ts)>>

NoManifest == <<>>

EmptyDir == [files |-> <<>>, manifest |-> NoManifest]

DirOf(dirs, d) == IF d \in DOMAIN dirs THEN dirs[d] ELSE EmptyDir

PutDir(dirs, d, v) == [x \in (DOMAIN dirs) \cup {d} |-> IF x = d THEN v ELSE dirs[x]]

\* Files of a directory: filename |-> number of the call that copied it.
PutFile(fs, fn, c) == [x \in (DOMAIN fs) \cup {fn} |-> IF x = fn THEN c ELSE fs[x]]

\* A manifest listing the artifacts in reverse order.
Manifest_Reversed(name, arts, d, c) ==
    <<[dataset |-> name,
       parquet_files |-> [k \in 1..Len(arts) |->
                            [filename |-> arts[Len(arts) + 1 - k].filename,
                             rows |-> arts[Len(arts) + 1 - k].rows]],
       storage_dir |-> d,
       created_at |-> c,
       form |-> "ok"]>>

\* save_metadata: the manifest document (line 184-213).
Manifest(name, arts, d, c) ==
    <<[dataset |-> name,
       parquet_files |-> [k \in 1..Len(arts) |->
                            [filename |-> arts[k].filename, rows |-> arts[k].rows]],
       storage_dir |-> d,
       created_at |-> c,
       form |-> "ok"]>>

\* line 124-129: nothing to store returns "", otherwise the directory is made.
store_parquet_files(name, ts, arts, manifestWritable) ==
    /\ spc \in {"idle", "done", "raised"}
    /\ scalls < MaxStores
    /\ scalls' = scalls + 1
    /\ sargs' = [name |-> name, ts |-> ts, artifacts |-> arts,
                 manifestWritable |-> manifestWritable]
    /\ sidx' = 1
    /\ IF arts = <<>>
       THEN spc' = "done" /\ UNCHANGED sdirs
       ELSE LET d == get_dataset_path(structure_template, name, ts)
            IN /\ spc' = "copying"
               /\ sdirs' = PutDir(sdirs, d, DirOf(sdirs, d))
    /\ UNCHANGED <<structure_template, listing, trackerVars, convVars, fileVars, retryVars>>

\* One iteration of the copy loop (line 133-156).
store_copy ==
    /\ spc = "copying"
    /\ LET d == get_dataset_path(structure_template, sargs.name, sargs.ts)
           pf == sargs.artifacts[sidx]
       IN IF pf.srcExists
          THEN /\ sdirs' = [sdirs EXCEPT ![d].files = PutFile(@, pf.filename, scalls)]
               /\ sidx' = sidx + 1
               /\ spc' = IF sidx = Len(sargs.artifacts) THEN "manifest" ELSE "copying"
          ELSE /\ spc' = "raised"
               /\ UNCHANGED <<sdirs, sidx>>
    /\ UNCHANGED <<sargs, scalls, structure_template, listing,
                   trackerVars, convVars, fileVars, retryVars>>

\* save_metadata (line 159, 181-225): write metadata.json or raise StorageError.
store_manifest ==
    /\ spc = "manifest"
    /\ LET d == get_dataset_path(structure_template, sargs.name, sargs.ts)
       IN IF sargs.manifestWritable
          THEN /\ sdirs' = [sdirs EXCEPT
                              ![d].manifest = Manifest(sargs.name, sargs.artifacts, d, scalls)]
               /\ spc' = "done"
          ELSE /\ spc' = "raised"
               /\ UNCHANGED sdirs
    /\ UNCHANGED <<sargs, sidx, scalls, structure_template, listing,
                   trackerVars, convVars, fileVars, retryVars>>

-----------------------------------------------------------------------------
(* storage.py : list_datasets *)

NotListed == [called |-> FALSE]

\* The pattern argument; "" stands for None (line 260: "if pattern:").
Patterns == {"", "MY", "other", "zzz"}

\* The limit argument; 0 stands for None (line 264).
Limits == {0, 1}

\* str.lower() on the texts of the model.
Lower(s) ==
    CASE s = "MY" -> "my"
      [] s = "Other" -> "other"
      [] OTHER -> s

\* needle in hay, for lower-cased texts of the model.
Contains(hay, needle) ==
    \/ needle = hay
    \/ <<needle, hay>> \in {<<"my", "my_data">>}

\* line 261: pattern.lower() in d.name.lower(); the digits of the timestamp
\* suffix match none of the patterns of the model.
NameMatches(pattern, c) == Contains(Lower(c.n), Lower(pattern))

\* line 251-257: the entries of <base>/kaggle, or nothing when it is absent.
KaggleChildren(dirs) ==
    {p[2] : p \in {q \in DOMAIN dirs : q[1] = Comp("kaggle", 0)}}

ChildPath(c) == <<Comp("kaggle", 0), c>>

\* The orders in which glob("*") may yield a set of entries.
GlobOrders(S) ==
    {o \in [1..Cardinality(S) -> S] : \A i, j \in 1..Cardinality(S) : i # j => o[i] # o[j]}

\* What editing metadata.json from outside can leave in a dataset directory.
TamperKinds == {"absent", "unparseable", "no_storage", "created_number"}

\* The value under "created": an ISO text of instant v (v = 0 is ""), or a
\* JSON number.
Created(isStr, v) == [str |-> isStr, v |-> v]

HasManifest(dirs, d) == d \in DOMAIN dirs /\ dirs[d].manifest # NoManifest

\* line 272-300: the record of one directory in detail mode.
DetailRecord(dirs, c) ==
    LET d == ChildPath(c)
    IN IF ~HasManifest(dirs, d)
       THEN [dir |-> d, name |-> c, kind |-> "metadata_missing"]
       ELSE LET m == dirs[d].manifest[1]
            IN IF m.form \in {"unparseable", "no_storage"}
               THEN [dir |-> d, name |-> c, kind |-> "error"]
               ELSE [dir |-> d, name |-> c, kind |-> "full",
                     created |-> Created(m.form = "ok", m.created_at),
                     dataset |-> m.dataset,
                     parquet_files |-> m.parquet_files]

\* line 301-324: the record of one directory in summary mode.
SummaryRecord(dirs, c) ==
    LET d == ChildPath(c)
        read == HasManifest(dirs, d)
                  /\ dirs[d].manifest[1].form \in {"ok", "created_number"}
    IN [name |-> c, path |-> d, kind |-> "summary",
        created |-> IF read
                    THEN Created(dirs[d].manifest[1].form = "ok",
                                 dirs[d].manifest[1].created_at)
                    ELSE Created(TRUE, 0),
        dataset_ref |-> IF read THEN dirs[d].manifest[1].dataset ELSE "",
        file_count |-> IF read THEN Len(dirs[d].manifest[1].parquet_files) ELSE 0]

\* line 328: x.get("created", "").
SortKey(r) == IF "created" \in DOMAIN r THEN r.created ELSE Created(TRUE, 0)

\* line 327: comparing a text with a number raises TypeError.
SortRaises(recs) ==
    \E i, j \in 1..Len(recs) : SortKey(recs[i]).str # SortKey(recs[j]).str

RemoveAt(s, i) == SubSeq(s, 1, i - 1) \o SubSeq(s, i + 1, Len(s))

\* line 327-330: list.sort(reverse=True) is stable: records with equal keys
\* keep their order.
RECURSIVE SortByCreatedDesc(_)
SortByCreatedDesc(recs) ==
    IF recs = <<>> THEN <<>>
    ELSE LET i == CHOOSE i \in 1..Len(recs) :
                     /\ \A j \in 1..Len(recs) : SortKey(recs[j]).v <= SortKey(recs[i]).v
                     /\ \A j \in 1..(i - 1) : SortKey(recs[j]).v < SortKey(recs[i]).v
         IN <<recs[i]>> \o SortByCreatedDesc(RemoveAt(recs, i))

\* line 260-261.
FilterPattern(order, pattern) ==
    IF pattern = "" THEN order
    ELSE SelectSeq(order, LAMBDA c : NameMatches(pattern, c))

\* line 264-265.
ApplyLimit(order, limit) ==
    IF limit > 0 /\ Len(order) > limit THEN SubSeq(order, 1, limit) ELSE order

list_datasets(pattern, detail, limit) ==
    /\ spc \in {"idle", "done", "raised"}
    /\ \E order \in GlobOrders(KaggleChildren(sdirs)) :
          LET kept == ApplyLimit(FilterPattern(order, pattern), limit)
              recs == [k \in 1..Len(kept) |->
                         IF detail THEN DetailRecord(sdirs, kept[k])
                                   ELSE SummaryRecord(sdirs, kept[k])]
          IN listing' = [called |-> TRUE, pattern |-> pattern, detail |-> detail,
                         limit |-> limit, dirs |-> sdirs,
                         raised |-> SortRaises(recs),
                         records |-> IF SortRaises(recs) THEN <<>>
                                     ELSE SortByCreatedDesc(recs)]
    /\ UNCHANGED <<sdirs, spc, sargs, sidx, scalls, structure_template,
                   trackerVars, convVars, fileVars, retryVars>>

\* Another program rewrites or removes the metadata.json of a stored dataset.
tamper_manifest(d, kind) ==
    /\ spc \in {"idle", "done", "raised"}
    /\ HasManifest(sdirs, d)
    /\ sdirs[d].manifest[1].form = "ok"
    /\ sdirs' = [sdirs EXCEPT ![d].manifest =
                    IF kind = "absent" THEN NoManifest
                    ELSE <<[@[1] EXCEPT !.form = kind]>>]
    /\ UNCHANGED <<spc, sargs, sidx, scalls, structure_template, listing,
                   trackerVars, convVars, fileVars, retryVars>>
-----------------------------------------------------------------------------
(* converter.py : _convert_csv on a file above the 100 MiB threshold *)

\* One chunk of the file: its number of rows and the step of the loop body
\* that raises on it ("none", "read": the iterator, "table": Table.from_pandas,
\* "open": the ParquetWriter constructor, "write": write_table).
Chunk(rows, fault) == [rows |-> rows, fault |-> fault]

ChunkUniverse ==
    { Chunk(2, "none"), Chunk(3, "none"), Chunk(0, "none"),
      Chunk(2, "read"), Chunk(2, "table"), Chunk(2, "open"), Chunk(3, "write") }

ChunkLists == UNION {[1..k -> ChunkUniverse] : k \in 0..MaxChunks}

\* line 325-326: the output path of the file being converted.
CsvOutputPath == <<"big", "parquet">>

NoWriter == <<>>

\* line 382-386: a ParquetWriter on output_path, opened while chunk k is
\* handled; written lists the chunks written through it.
OpenWriter(k) ==
    [path |-> CsvOutputPath, openedAt |-> k, state |-> "open", written |-> <<>>]

\* row_count that forgets the chunks counted before.
AddRows_LastOnly(count, ch) == ch.rows

\* line 390: row_count += len(chunk).
AddRows(count, ch) == count + ch.rows

\* line 392-393: the finally clause closes the writer if there is one.
CloseWriters(ws) == [k \in 1..Len(ws) |-> [ws[k] EXCEPT !.state = "closed"]]

CsvIdle ==
    /\ chunks = <<>>
    /\ cpos = 1
    /\ writers = NoWriter
    /\ row_count = 0
    /\ csvFailed = FALSE
    /\ csvpc = "idle"
    /\ csvArtifact = <<>>

\* line 362-372: the chunk reader is created, writer = None, row_count = 0.
convert_csv_chunked(chs) ==
    /\ csvpc \in {"idle", "done", "raised"}
    /\ chunks' = chs
    /\ cpos' = 1
    /\ writers' = NoWriter
    /\ row_count' = 0
    /\ csvFailed' = FALSE
    /\ csvArtifact' = <<>>
    /\ csvpc' = IF chs = <<>> THEN "finally" ELSE "loop"
    /\ UNCHANGED <<outdir, fcalls, lastConv, detectVars, configVars,
                   trackerVars, convVars, storeVars, retryVars>>

\* line 373-390: one iteration of the loop; an exception leaves the loop for
\* the finally clause, the last chunk ends it.
csv_chunk ==
    /\ csvpc = "loop"
    /\ LET ch == chunks[cpos]
           opening == writers = NoWriter
           opened == IF opening /\ ch.fault \notin {"read", "table", "open"}
                     THEN <<OpenWriter(cpos)>> ELSE writers
           raises == \/ ch.fault \in {"read", "table", "write"}
                     \/ ch.fault = "open" /\ opening
       IN IF raises
          THEN /\ writers' = opened
               /\ csvFailed' = TRUE
               /\ csvpc' = "finally"
               /\ UNCHANGED <<cpos, row_count>>
          ELSE /\ writers' = [opened EXCEPT ![Len(opened)].written = Append(@, cpos)]
               /\ row_count' = AddRows(row_count, ch)
               /\ cpos' = cpos + 1
               /\ csvpc' = IF cpos = Len(chunks) THEN "finally" ELSE "loop"
               /\ UNCHANGED csvFailed
    /\ UNCHANGED <<chunks, csvArtifact, outdir, fcalls, lastConv, detectVars, configVars,
                   trackerVars, convVars, storeVars, retryVars>>

\* line 391-393, then 414-460: the writer is closed; a pending exception, or
\* os.path.getsize on an output file that was never created, becomes
\* ConversionError; otherwise the ParquetFile is returned.
csv_finish ==
    /\ csvpc = "finally"
    /\ writers' = CloseWriters(writers)
    /\ IF csvFailed \/ writers = NoWriter
       THEN csvpc' = "raised" /\ UNCHANGED csvArtifact
       ELSE /\ csvpc' = "done"
            /\ csvArtifact' = <<[path |-> CsvOutputPath, rows |-> row_count,
                                 conversion_status |-> "completed"]>>
    /\ UNCHANGED <<chunks, cpos, row_count, csvFailed, outdir, fcalls, lastConv, detectVars, configVars,
                   trackerVars, convVars, storeVars, retryVars>>
-----------------------------------------------------------------------------
(* converter.py : convert_file called directly on one file *)

NoConversion == [called |-> FALSE]

\* The files convert_file is called on: those of the batches and some more
\* faulty ones.
FileUniverse ==
    ConvUniverse \cup
    { RawFile("f", "parquet", "malformed", 1),
      RawFile("a", "csv", "missing", 1),
      RawFile("h", "xlsx", "malformed", 2),
      RawFile("q", "xlsx", "none", 2),
      RawFile("e", "txt", "missing", 1),
      RawFile("k", "avro", "none", 1) }

\* convert_file(data_file, output_dir): the public single-file entry point.
convert_file(f) ==
    /\ fcalls < MaxFileCalls
    /\ fcalls' = fcalls + 1
    /\ outdir' = WriteDisk(outdir, PathsWritten(f), fcalls')
    /\ lastConv' = [called |-> TRUE, file |-> f, outcome |-> ConvertOutcome(f),
                    artifact |-> IF ConvertOutcome(f) = "ok"
                                 THEN <<Artifact(1, f)>> ELSE <<>>,
                    before |-> outdir]
    /\ UNCHANGED <<csvVars, detectVars, configVars, trackerVars, convVars, storeVars, retryVars>>

-----------------------------------------------------------------------------
(* exceptions.py and utils/retry_utils.py *)

\* The base class of each exception class ("" above Exception).
Parent(cls) ==
    CASE cls = "Exception" -> ""
      [] cls = "KaggleParquetError" -> "Exception"
      [] cls \in {"APIError", "DatasetError", "NetworkError"} -> "KaggleParquetError"
      [] cls \in {"KaggleAPIError", "AuthenticationError"} -> "APIError"
      [] cls = "DatasetNotFoundError" -> "DatasetError"
      [] cls = "RateLimitError" -> "NetworkError"
      [] OTHER -> "Exception"

\* isinstance(e, cls) for an exception e of class kind.
RECURSIVE IsInstance(_, _)
IsInstance(kind, cls) ==
    IF kind = "" THEN FALSE
    ELSE IF kind = cls THEN TRUE
    ELSE IsInstance(Parent(kind), cls)

\* Exception classes the wrapped callable raises.
RaisedKinds == {"KaggleAPIError", "RateLimitError", "DatasetNotFoundError", "AuthenticationError"}

\* The values of the exceptions argument.
ExceptionSets == { {"KaggleAPIError", "RateLimitError"}, {"APIError"}, {"Exception"} }

\* Jitter drawn by random.uniform(-jitter, jitter), in tenths.
JitterValues == {-1, 0, 1}

\* What one invocation of the wrapped callable does.
AttemptOutcomes == {[returns |-> TRUE, kind |-> ""]} \cup {[returns |-> FALSE, kind |-> k] : k \in RaisedKinds}

RetryConfigs ==
    [impl : {"retry", "RetryWithExponentialBackoff"}, exceptions : ExceptionSets,
     tries : 0..MaxTries, delay : {10}, backoff : {2}]

\* Caught that takes every exception.
Caught_Everything(kind, exceptions) == TRUE

\* "except exceptions_tuple as e" / "except self.exceptions as e"
Caught(kind, exceptions) == \E cls \in exceptions : IsInstance(kind, cls)

\* WrapperExhausted that gives up one attempt early.
WrapperExhausted_OneEarly(remaining) == remaining <= 0

\* retry.wrapper line 59-60: local_tries (already decremented) < 0
WrapperExhausted(remaining) == remaining < 0

\* execute line 143-144: tries (already incremented) > self.max_retries
ExecuteExhausted(used, max_retries) == used > max_retries

\* The wrapped function is called through the wrapper (line 54 / 136-137).
retry_call(cfg) ==
    /\ rpc = "idle"
    /\ rcfg' = cfg
    /\ local_tries' = IF cfg.impl = "retry" THEN cfg.tries ELSE 0
    /\ local_delay' = cfg.delay
    /\ rpc' = "calling"
    /\ UNCHANGED <<attempts, sleeps, rresult, trackerVars, convVars, storeVars, fileVars>>

\* One pass of "while True: try: return func(...) except ...:" up to the
\* sleep (retry.wrapper line 55-71, execute line 139-155).
retry_attempt(o, j) ==
    /\ rpc = "calling"
    /\ attempts' = Append(attempts, o)
    /\ LET n == Len(attempts')
           exc == [returned |-> FALSE, kind |-> o.kind, attempt |-> n]
           counter == IF rcfg.impl = "retry" THEN local_tries - 1 ELSE local_tries + 1
           exhausted == IF rcfg.impl = "retry" THEN WrapperExhausted(counter)
                        ELSE ExecuteExhausted(counter, rcfg.tries)
       IN IF o.returns
          THEN /\ rpc' = "returned"
               /\ rresult' = [returned |-> TRUE, kind |-> "", attempt |-> n]
               /\ UNCHANGED <<local_tries, sleeps>>
          ELSE IF ~Caught(o.kind, rcfg.exceptions)
          THEN /\ rpc' = "raised"
               /\ rresult' = exc
               /\ UNCHANGED <<local_tries, sleeps>>
          ELSE /\ local_tries' = counter
               /\ IF exhausted
                  THEN /\ rpc' = "raised"
                       /\ rresult' = exc
                       /\ UNCHANGED sleeps
                  ELSE /\ rpc' = "sleeping"
                       /\ sleeps' = Append(sleeps, (local_delay * (10 + j)) \div 10)
                       /\ UNCHANGED rresult
    /\ UNCHANGED <<rcfg, local_delay, trackerVars, convVars, storeVars, fileVars>>

\* time.sleep(sleep_time) returns and the delay grows (line 73-75 / 157-159).
retry_sleep ==
    /\ rpc = "sleeping"
    /\ local_delay' = local_delay * rcfg.backoff
    /\ rpc' = "calling"
    /\ UNCHANGED <<rcfg, local_tries, attempts, sleeps, rresult,
                   trackerVars, convVars, storeVars, fileVars>>

-----------------------------------------------------------------------------
(* config.py : Config *)

\* The sections and keys of DEFAULT_CONFIG the model keeps (line 24-56).
OriginalDefaults ==
    [download |-> [timeout |-> 600, retries |-> 3],
     output |-> [dir |-> 1]]

Sections == DOMAIN OriginalDefaults

\* Dotted keys given to set(), as <<section, key>>.
ConfigKeys == {<<"download", "timeout">>, <<"download", "retries">>, <<"output", "dir">>}

SetValues == {999, 7}

NoFile == <<>>

\* Files found at config_path when a Config is built: none, one that names
\* only the download section, one with every section.
ConfigFiles ==
    { NoFile,
      <<[download |-> [timeout |-> 30]]>>,
      <<[download |-> [timeout |-> 600, retries |-> 3], output |-> [dir |-> 2]]>> }

\* A nested dict is the class-level one ("shared") or one the instance owns.
Refer(top, defaults, own, sec) == IF top[sec] = "shared" THEN defaults[sec] ELSE own[sec]

\* yaml.dump(self.config): the values the instance's dict shows.
Document(top, defaults, own) == [sec \in Sections |-> Refer(top, defaults, own, sec)]

\* line 143: dict(self.DEFAULT_CONFIG) copies the outer dict only; every
\* section still refers to the nested dict of the class attribute.
DefaultCopy == [sec \in Sections |-> "shared"]

\* line 125-131: dict(default) overlaid with the keys of override.
MergeSection(default, override) ==
    [k \in (DOMAIN default) \cup (DOMAIN override) |->
        IF k \in DOMAIN override THEN override[k] ELSE default[k]]

\* line 230: data[key] = value.
SetKey(d, k, v) == [x \in (DOMAIN d) \cup {k} |-> IF x = k THEN v ELSE d[x]]

ConfigIdle ==
    /\ defaultSections = OriginalDefaults
    /\ ownSections = OriginalDefaults
    /\ configTop = DefaultCopy
    /\ configFile = NoFile
    /\ configOps = 0
    /\ lastConfigOp = "none"

\* line 135-150: _create_default_config, used by __init__ and reset.
CreateDefault ==
    /\ configTop' = DefaultCopy
    /\ configFile' = <<Document(configTop', defaultSections, ownSections)>>
    /\ UNCHANGED <<defaultSections, ownSections>>

\* line 58-66, 92-112: Config(config_path) with the file found there.
Config_init ==
    /\ configOps < MaxConfigOps
    /\ configOps' = configOps + 1
    /\ lastConfigOp' = "init"
    /\ IF configFile = NoFile
       THEN CreateDefault
       ELSE LET loaded == configFile[1]
            IN /\ configTop' = [sec \in Sections |->
                                  IF sec \in DOMAIN loaded THEN "own" ELSE DefaultCopy[sec]]
               /\ ownSections' = [sec \in Sections |->
                                    IF sec \in DOMAIN loaded
                                    THEN MergeSection(defaultSections[sec], loaded[sec])
                                    ELSE ownSections[sec]]
               /\ UNCHANGED <<defaultSections, configFile>>
    /\ UNCHANGED <<outdir, fcalls, lastConv, csvVars, detectVars,
                   trackerVars, convVars, storeVars, retryVars>>

\* line 205-246: set(key, value) writes into the nested dict the instance
\* refers to, then saves the file.
Config_set(key, value) ==
    /\ lastConfigOp # "none"
    /\ configOps < MaxConfigOps
    /\ configOps' = configOps + 1
    /\ lastConfigOp' = "set"
    /\ IF configTop[key[1]] = "shared"
       THEN /\ defaultSections' = [defaultSections EXCEPT
                                     ![key[1]] = SetKey(@, key[2], value)]
            /\ UNCHANGED ownSections
       ELSE /\ ownSections' = [ownSections EXCEPT ![key[1]] = SetKey(@, key[2], value)]
            /\ UNCHANGED defaultSections
    /\ configFile' = <<Document(configTop, defaultSections', ownSections')>>
    /\ UNCHANGED <<configTop, outdir, fcalls, lastConv, csvVars, detectVars,
                   trackerVars, convVars, storeVars, retryVars>>

\* line 248-254: reset().
Config_reset ==
    /\ lastConfigOp # "none"
    /\ configOps < MaxConfigOps
    /\ configOps' = configOps + 1
    /\ lastConfigOp' = "reset"
    /\ CreateDefault
    /\ UNCHANGED <<outdir, fcalls, lastConv, csvVars, detectVars,
                   trackerVars, convVars, storeVars, retryVars>>
-----------------------------------------------------------------------------
(* Specifications *)

TrackerIdle ==
    /\ dsStatus = "pending"
    /\ files = <<>>
    /\ snapshot = NoSnapshot
    /\ log = <<>>
    /\ clock = 0
    /\ lastOp = Call("init", "", 0)
    /\ clientPc = "none"
    /\ statusRead = EmptyStatus

\* convert_dataset has not been called.
ConvNoBatch ==
    /\ cfiles = <<>>
    /\ cforce = FALSE
    /\ processes = 1
    /\ cpuCount = 1
    /\ disk = <<>>
    /\ calls = 0
    /\ cpc = "idle"
    /\ eligible = <<>>
    /\ effWorkers = 0
    /\ converted = <<>>
    /\ okNow = {}
    /\ okBefore = {}
    /\ futures = <<>>
    /\ collected = 0
    /\ results = <<>>
    /\ failLog = <<>>
    /\ ret = <<>>
    /\ part = [unsupported |-> <<>>, already |-> <<>>, supported |-> <<>>]
    /\ diskAtCall = <<>>
    /\ finished = <<>>

ConvIdle == ConvNoBatch /\ WorkerIdle

StoreIdle ==
    /\ sdirs = <<>>
    /\ spc = "idle"
    /\ sargs = [name |-> "Other", ts |-> 1, artifacts |-> <<>>, manifestWritable |-> TRUE]
    /\ sidx = 1
    /\ scalls = 0
    /\ structure_template = DefaultTemplate
    /\ listing = NotListed

FileIdle ==
    /\ outdir = <<>>
    /\ fcalls = 0
    /\ lastConv = NoConversion
    /\ CsvIdle
    /\ DetectIdle
    /\ ConfigIdle

NoRetryConfig ==
    [impl |-> "retry", exceptions |-> {"Exception"}, tries |-> 0, delay |-> 10, backoff |-> 2]

RetryIdle ==
    /\ rcfg = NoRetryConfig
    /\ rpc = "idle"
    /\ local_tries = 0
    /\ local_delay = 0
    /\ attempts = <<>>
    /\ sleeps = <<>>
    /\ rresult = [returned |-> FALSE, kind |-> "", attempt |-> 0]

InitTracker ==
    /\ dsStatus = "pending"
    /\ clientPc \in {"none", "created"}
    /\ files \in (IF clientPc = "created" THEN {<<>>} ELSE InitFileLists)
    /\ snapshot = NoSnapshot
    /\ log = <<>>
    /\ clock = 0
    /\ lastOp = Call("init", "", 0)
    /\ statusRead = EmptyStatus
    /\ ConvIdle
    /\ StoreIdle
    /\ FileIdle
    /\ RetryIdle

NextTracker ==
    \/ start_tracking
    \/ \E fn \in Filenames, p \in ProgressValues : update_file_progress(fn, p)
    \/ \E fn \in Filenames : complete_file(fn)
    \/ \E fn \in Filenames : fail_file(fn)
    \/ \E fn \in Filenames : skip_file(fn)
    \/ complete_download
    \/ fail_download
    \/ get_status
    \/ download_dataset_begin
    \/ \E fs \in DownloadedLists : download_dataset_finish(fs)

SpecTracker == InitTracker /\ [][NextTracker]_vars

InitConvert ==
    /\ TrackerIdle
    /\ StoreIdle
    /\ FileIdle
    /\ RetryIdle
    /\ cfiles \in Batches
    /\ processes \in ProcessesValues
    /\ cpuCount \in CpuCounts
    /\ cforce = FALSE
    /\ disk = <<>>
    /\ calls = 0
    /\ cpc = "idle"
    /\ eligible = <<>>
    /\ effWorkers = 0
    /\ converted = <<>>
    /\ okNow = {}
    /\ okBefore = {}
    /\ futures = <<>>
    /\ collected = 0
    /\ results = <<>>
    /\ failLog = <<>>
    /\ ret = <<>>
    /\ part = [unsupported |-> <<>>, already |-> <<>>, supported |-> <<>>]
    /\ diskAtCall = <<>>
    /\ finished = <<>>
    /\ WorkerIdle

NextConvert ==
    \/ \E force \in BOOLEAN : convert_dataset(force)
    \/ convert_step
    \/ worker_start
    \/ \E k \in 1..MaxBatch : worker_finish(k)
    \/ \E k \in 1..MaxBatch : worker_crash(k)
    \/ collect_result
    \/ rebuild_results

SpecConvert == InitConvert /\ [][NextConvert]_vars

InitStore ==
    /\ TrackerIdle
    /\ ConvIdle
    /\ StoreIdle
    /\ FileIdle
    /\ RetryIdle

NextStore ==
    \/ \E name \in DatasetNames, ts \in Timestamps, arts \in ArtifactLists,
          w \in BOOLEAN : store_parquet_files(name, ts, arts, w)
    \/ store_copy
    \/ store_manifest

SpecStore == InitStore /\ [][NextStore]_vars


InitFile ==
    /\ TrackerIdle
    /\ ConvIdle
    /\ StoreIdle
    /\ FileIdle
    /\ RetryIdle

NextFile == \E f \in FileUniverse : convert_file(f)

SpecFile == InitFile /\ [][NextFile]_vars

InitRetry ==
    /\ TrackerIdle
    /\ ConvIdle
    /\ StoreIdle
    /\ FileIdle
    /\ RetryIdle

NextRetry ==
    \/ \E cfg \in RetryConfigs : retry_call(cfg)
    \/ \E o \in AttemptOutcomes, j \in JitterValues : retry_attempt(o, j)
    \/ retry_sleep

SpecRetry == InitRetry /\ [][NextRetry]_vars

\* Storing and listing: the manager is built with any of the templates, a
\* few datasets are stored, manifests may be edited from outside, and the
\* base directory is then listed.
ListedNames == {"my data", "Other"}

ListedArtifactLists ==
    { <<>>,
      <<StoreArtifact("p.parquet", 5, TRUE)>>,
      <<StoreArtifact("q.parquet", 3, TRUE), StoreArtifact("p.parquet", 5, TRUE)>>,
      <<StoreArtifact("r.parquet", 7, FALSE)>> }

InitList ==
    /\ TrackerIdle
    /\ ConvIdle
    /\ FileIdle
    /\ RetryIdle
    /\ sdirs = <<>>
    /\ spc = "idle"
    /\ sargs = [name |-> "Other", ts |-> 1, artifacts |-> <<>>, manifestWritable |-> TRUE]
    /\ sidx = 1
    /\ scalls = 0
    /\ structure_template \in Templates
    /\ listing = NotListed

NextList ==
    \/ /\ listing = NotListed
       /\ \E name \in ListedNames, ts \in Timestamps, arts \in ListedArtifactLists,
             w \in BOOLEAN : store_parquet_files(name, ts, arts, w)
    \/ store_copy
    \/ store_manifest
    \/ /\ listing = NotListed
       /\ \E d \in DOMAIN sdirs, kind \in TamperKinds : tamper_manifest(d, kind)
    \/ \E pattern \in Patterns, detail \in BOOLEAN, limit \in Limits :
          list_datasets(pattern, detail, limit)

SpecList == InitList /\ [][NextList]_vars

\* Storing alone, under any of the templates.
NextStoreTemplates ==
    \/ \E name \in ListedNames, ts \in Timestamps, arts \in ListedArtifactLists,
          w \in BOOLEAN : store_parquet_files(name, ts, arts, w)
    \/ store_copy
    \/ store_manifest

SpecStoreTemplates == InitList /\ [][NextStoreTemplates]_vars

InitCsv ==
    /\ TrackerIdle
    /\ ConvIdle
    /\ StoreIdle
    /\ FileIdle
    /\ RetryIdle

NextCsv ==
    \/ \E chs \in ChunkLists : convert_csv_chunked(chs)
    \/ csv_chunk
    \/ csv_finish

SpecCsv == InitCsv /\ [][NextCsv]_vars

\* multi_process_convert called directly with any requested worker count.
InitWorkers ==
    /\ TrackerIdle
    /\ StoreIdle
    /\ FileIdle
    /\ RetryIdle
    /\ ConvNoBatch
    /\ wfiles \in PoolFileLists
    /\ wrequested \in RequestedValues
    /\ wcpus \in HostCpuCounts
    /\ wcall = NotCalled

NextWorkers == multi_process_convert

SpecWorkers == InitWorkers /\ [][NextWorkers]_vars

\* detect_format called on any of the paths, whether or not a file is there.
InitDetect ==
    /\ TrackerIdle
    /\ ConvIdle
    /\ StoreIdle
    /\ RetryIdle
    /\ outdir = <<>>
    /\ fcalls = 0
    /\ lastConv = NoConversion
    /\ CsvIdle
    /\ ConfigIdle
    /\ dpath \in PathUniverse
    /\ dexists \in BOOLEAN
    /\ dresults = <<>>

NextDetect == detect_format_call

SpecDetect == InitDetect /\ [][NextDetect]_vars

\* A Config is built on any of the files, then changed and reset.
InitConfig ==
    /\ TrackerIdle
    /\ ConvIdle
    /\ StoreIdle
    /\ RetryIdle
    /\ outdir = <<>>
    /\ fcalls = 0
    /\ lastConv = NoConversion
    /\ CsvIdle
    /\ DetectIdle
    /\ defaultSections = OriginalDefaults
    /\ ownSections = OriginalDefaults
    /\ configTop = DefaultCopy
    /\ configFile \in ConfigFiles
    /\ configOps = 0
    /\ lastConfigOp = "none"

NextConfig ==
    \/ Config_init
    \/ \E key \in ConfigKeys, value \in SetValues : Config_set(key, value)
    \/ Config_reset

SpecConfig == InitConfig /\ [][NextConfig]_vars
-----------------------------------------------------------------------------
(* Properties of the Download Tracker *)

Terminal == {"completed", "failed", "skipped"}

PerFileOps == {"update_file_progress", "complete_file", "fail_file", "skip_file"}

\* The step just taken is a tracker call named op (every call advances clock).
TrackerStep(op) == lastOp'.op = op /\ clock' = clock + 1

\* C6: whenever the dataset status is DOWNLOADED, every file of the dataset
\* is in a terminal download state (COMPLETED, FAILED or SKIPPED).
C6_DownloadedImpliesAllTerminal ==
    dsStatus = "downloaded" =>
        \A i \in 1..Len(files) : files[i].download_status \in Terminal

\* C7: once a file is COMPLETED, no update_file_progress, complete_file,
\* fail_file or skip_file call changes its download state or its progress.
C7_CompletedFileImmutable ==
    [][ \A op \in PerFileOps : TrackerStep(op) =>
          \A i \in 1..Len(files) :
              files[i].download_status = "completed" =>
                  /\ files'[i].download_status = "completed"
                  /\ files'[i].download_progress = files[i].download_progress ]_vars

\* C8: complete_download sets DOWNLOADED when every file is COMPLETED or
\* SKIPPED (also with no files), FAILED when that is not so and some file is
\* FAILED, and otherwise keeps the status; it always rewrites the snapshot
\* with the resulting state and changes no file.
C8_CompleteDownloadEvaluatesOnce ==
    [][ TrackerStep("complete_download") =>
          LET allDone == \A i \in 1..Len(files) :
                            files[i].download_status \in {"completed", "skipped"}
              anyFailed == \E i \in 1..Len(files) :
                            files[i].download_status = "failed"
          IN /\ allDone => dsStatus' = "downloaded"
             /\ (~allDone /\ anyFailed) => dsStatus' = "failed"
             /\ (~allDone /\ ~anyFailed) => dsStatus' = dsStatus
             /\ files' = files
             /\ snapshot'.exists
             /\ snapshot'.timestamp = clock'
             /\ snapshot'.status = dsStatus'
             /\ Len(snapshot'.files) = Len(files)
             /\ \A i \in 1..Len(files) :
                    /\ snapshot'.files[i].filename = files[i].filename
                    /\ snapshot'.files[i].status = files[i].download_status
                    /\ snapshot'.files[i].progress = files[i].download_progress ]_vars

\* C8 witness: complete_download has run on a dataset with neither all files
\* done nor any file failed; the status is still PENDING and the snapshot is new.
C8_Witness ==
    /\ lastOp.op = "complete_download"
    /\ dsStatus = "pending"
    /\ Len(files) > 0
    /\ \E i \in 1..Len(files) : files[i].download_status = "in_progress"
    /\ snapshot.exists /\ snapshot.timestamp = clock /\ snapshot.status = "pending"

\* What C9 says of one update_file_progress(fn, p) step on a present file,
\* with inProgress(p) the condition under which the state becomes IN_PROGRESS.
C9_UpdateEffect(inProgress(_)) ==
    TrackerStep("update_file_progress") /\ Matches(files, lastOp'.filename) # {} =>
        LET p == lastOp'.progress
            i == FirstMatch(files, lastOp'.filename)
        IN /\ files'[i].download_progress = p
           /\ p >= 100 => files'[i].download_status = "completed"
           /\ (p < 100 /\ inProgress(p)) => files'[i].download_status = "in_progress"
           /\ p = 0 => files'[i].download_status = files[i].download_status
           /\ snapshot'.exists
           /\ snapshot'.timestamp = clock'
           /\ snapshot'.files[i].progress = p
           /\ snapshot'.files[i].status = files'[i].download_status

\* What C9 says of start_tracking.
C9_StartEffect ==
    TrackerStep("start_tracking") =>
        /\ Len(files') = Len(files)
        /\ \A i \in 1..Len(files') :
               /\ files'[i].download_status = "pending"
               /\ files'[i].download_progress = 0
        /\ dsStatus' = "downloading"
        /\ snapshot'.exists /\ snapshot'.timestamp = clock'
        /\ snapshot'.status = "downloading"
        /\ \A i \in 1..Len(files') :
               snapshot'.files[i].status = "pending" /\ snapshot'.files[i].progress = 0

C9_Nonzero(p) == p # 0

C9_Positive(p) == p > 0

Lifecycle ==
    { <<"pending", "downloading">>, <<"downloading", "downloaded">>,
      <<"downloaded", "converting">>, <<"converting", "completed">>,
      <<"downloading", "failed">> }

\* C10: the dataset status changes only along PENDING -> DOWNLOADING ->
\* DOWNLOADED -> CONVERTING -> COMPLETED, with FAILED entered only from
\* DOWNLOADING (never backwards, never from DOWNLOADED to FAILED).
C10_LifecycleOnly ==
    [][ dsStatus' # dsStatus => <<dsStatus, dsStatus'>> \in Lifecycle ]_vars


DatasetOps == {"start_tracking", "complete_download", "fail_download"}

\* The step just taken is a tracker operation that rewrites the snapshot: a
\* dataset-level operation, or a per-file operation whose filename matches.
RewritingStep ==
    \/ \E op \in DatasetOps : TrackerStep(op)
    \/ \E op \in PerFileOps : TrackerStep(op) /\ Matches(files, lastOp'.filename) # {}

\* The document shows the dataset status st and the files fs, in order.
Shows(doc, st, fs) ==
    /\ doc.status = st
    /\ Len(doc.files) = Len(fs)
    /\ \A i \in 1..Len(fs) :
          /\ doc.files[i].filename = fs[i].filename
          /\ doc.files[i].status = fs[i].download_status
          /\ doc.files[i].progress = fs[i].download_progress
          /\ doc.files[i].size = fs[i].size

\* C18: the snapshot is last-write-wins. An operation that rewrites it
\* leaves a document showing the dataset as that operation left it; any other
\* step leaves the document alone; get_status() returns the empty structure
\* before the first write and the last written document afterwards.
C18_SnapshotLastWriteWins ==
    [][ /\ RewritingStep => snapshot'.exists /\ Shows(snapshot', dsStatus', files')
        /\ ~RewritingStep => snapshot' = snapshot
        /\ TrackerStep("get_status") =>
              IF snapshot.exists
              THEN /\ statusRead' # EmptyStatus
                   /\ statusRead'.status = snapshot.status
                   /\ statusRead'.files = snapshot.files
                   /\ statusRead'.timestamp = snapshot.timestamp
              ELSE statusRead' = EmptyStatus ]_vars

\* C18 witness: get_status() has returned the document of the second of two
\* rewrites, with the second file of the dataset IN_PROGRESS at 5%.
C18_Witness ==
    /\ lastOp.op = "get_status"
    /\ statusRead # EmptyStatus
    /\ statusRead.timestamp = 2
    /\ Len(statusRead.files) = 2
    /\ statusRead.files[2].status = "in_progress"
    /\ statusRead.files[2].progress = 5
    /\ Shows(statusRead, dsStatus, files)

\* C22: in every state reached by tracker operations every file's download
\* progress lies between 0 and 100 inclusive, whatever progress values were
\* passed to update_file_progress.
C22_ProgressInRange ==
    \A i \in 1..Len(files) :
        files[i].download_progress >= 0 /\ files[i].download_progress <= 100

\* floor(p / 10).
Floor10(p) == p \div 10

\* The lines of kind k the step appends to download.log.
AppendedLines(k) ==
    {n \in (Len(log) + 1)..Len(log') : log'[n].kind = k}

IsPrefix(s, t) == Len(s) <= Len(t) /\ SubSeq(t, 1, Len(s)) = s

\* C28: update_file_progress appends a progress line exactly when the update
\* moves the file into a higher tenth (floor(old / 10) < floor(new / 10)),
\* and no tracker operation rewrites or removes a line already in the log.
C28_LogOnTenthCrossing ==
    [][ /\ IsPrefix(log, log')
        /\ (TrackerStep("update_file_progress")
            /\ Matches(files, lastOp'.filename) # {}) =>
               LET i == FirstMatch(files, lastOp'.filename)
                   old == files[i].download_progress
                   new == lastOp'.progress
               IN (AppendedLines("progress") # {}) <=> (Floor10(old) < Floor10(new)) ]_vars

\* The file at position i is not the first file of the list named fn.
NotFirstNamed(fs, i, fn) ==
    fs[i].filename # fn \/ \E j \in 1..(i - 1) : fs[j].filename = fn

\* C30: update_file_progress, complete_file, fail_file and skip_file called
\* with a filename no file of the dataset has change no file, no dataset
\* status, no log line and no snapshot; with a filename some file has, every
\* file other than the first one of that name keeps its state and progress,
\* the list keeps its length, and the dataset status is unchanged.
C30_PerFileFrame ==
    [][ \A op \in PerFileOps : TrackerStep(op) =>
          LET fn == lastOp'.filename
          IN /\ dsStatus' = dsStatus
             /\ Len(files') = Len(files)
             /\ \A i \in 1..Len(files) :
                    NotFirstNamed(files, i, fn) => files'[i] = files[i]
             /\ (\A i \in 1..Len(files) : files[i].filename # fn) =>
                    /\ files' = files
                    /\ log' = log
                    /\ snapshot' = snapshot ]_vars

\* complete_file on a dataset that lists one filename twice has completed the
\* first entry and left the second one pending.
C30_Witness ==
    /\ lastOp.op = "complete_file"
    /\ Len(files) = 2
    /\ files[1].filename = lastOp.filename
    /\ files[2].filename = lastOp.filename
    /\ files[1].download_status = "completed"
    /\ files[2].download_status = "pending"
    /\ files[2].download_progress = 0
-----------------------------------------------------------------------------
(* Properties of batch conversion *)

Count(seq, x) == Cardinality({k \in 1..Len(seq) : seq[k] = x})

Sources(arts) == {arts[k].src : k \in 1..Len(arts)}

Elems(seq) == {seq[k] : k \in 1..Len(seq)}

Crashed == \E k \in 1..Len(futures) : futures[k] = "exc"

ParallelMode == Len(futures) > 0

\* C1: convert_dataset never ends by raising, whatever the per-file outcomes;
\* when it returns (and no worker process died) every eligible file has been
\* handed to convert_file and every file that converted has its artifact in
\* the returned list.
C1_FailuresIsolated ==
    /\ cpc # "raised"
    /\ (cpc = "done" /\ ~Crashed) =>
          /\ Elems(eligible) \subseteq Elems(converted)
          /\ okNow \subseteq Sources(ret)

RunningFile(k) == cfiles[eligible[k]]

\* C4 (as claimed): no two workers running at the same time write to the
\* same output path, for any batch of eligible files.
C4_ExclusiveOutputPaths ==
    \A j, k \in Running :
        j # k => OutputPaths(RunningFile(j)) \cap OutputPaths(RunningFile(k)) = {}

\* C4 (amended): two workers running at the same time write to different
\* output paths provided their files' basenames have different stems.
C4_ExclusiveGivenDistinctStems ==
    \A j, k \in Running :
        (j # k /\ RunningFile(j).stem # RunningFile(k).stem) =>
            OutputPaths(RunningFile(j)) \cap OutputPaths(RunningFile(k)) = {}

\* C4 witness: two workers run at once on files with different stems, one of
\* them a multi-sheet workbook.
C4_Witness ==
    \E j, k \in Running :
        /\ j # k
        /\ RunningFile(j).stem # RunningFile(k).stem
        /\ RunningFile(j).sheets > 1
        /\ OutputPaths(RunningFile(j)) \cap OutputPaths(RunningFile(k)) = {}

\* C5: a file converted successfully by an earlier call is, on a later call
\* with force = false, neither converted again nor returned; with
\* force = true (the call returning, no worker process dying) it is converted
\* again, its output is rewritten by this call and its artifact is returned.
C5_Idempotent ==
    (cpc = "done" /\ calls >= 2) =>
        \A i \in okBefore :
            IF ~cforce
            THEN i \notin Elems(converted) /\ i \notin Sources(ret)
            ELSE ~Crashed =>
                    /\ i \in Elems(converted)
                    /\ i \in Sources(ret)
                    /\ \A p \in OutputPaths(cfiles[i]) : p \in DOMAIN disk /\ disk[p] = calls


\* Input positions of the returned artifacts, in the order of the list.
SourceOrder(arts) == [r \in 1..Len(arts) |-> arts[r].src]

\* Input positions of the files whose workers succeeded, in completion order.
CompletionOrder ==
    LET done == SelectSeq(finished, LAMBDA k : futures[k] = "success")
    IN [r \in 1..Len(done) |-> eligible[done[r]]]

\* C11: in parallel mode the returned artifacts are in the order in which
\* their workers completed.
C11_CompletionOrder ==
    (ParallelMode /\ cpc = "done") => SourceOrder(ret) = CompletionOrder

StrictlyIncreasing(seq) == \A r, s \in 1..Len(seq) : r < s => seq[r] < seq[s]

\* C12: in sequential mode the returned artifacts are in input order: the
\* input positions of the artifacts increase along the list, at every point
\* of the loop and at its end, whatever files failed or were skipped.
C12_SequentialInputOrder ==
    (~ParallelMode /\ cpc \in {"seq", "done"}) => StrictlyIncreasing(SourceOrder(ret))

\* C12 witness: a sequential call has returned the artifacts of both input
\* files, the first file's artifact first.
C12_Witness ==
    /\ ~ParallelMode
    /\ cpc = "done"
    /\ Len(ret) = 2
    /\ ret[1].src = 1 /\ ret[2].src = 2

NoDuplicates(seq) == Cardinality(Elems(seq)) = Len(seq)

SupportedFormat(i) == cfiles[i].format \in {"csv", "json", "excel", "tsv", "parquet"}

\* The three lists of the current call are disjoint, cover the input, hold
\* the files their names say, and only eligible files are converted or
\* returned.
PartitionRespected ==
    LET U == Elems(part.unsupported)
        A == Elems(part.already)
        S == Elems(part.supported)
    IN /\ U \cup A \cup S = 1..Len(cfiles)
       /\ U \cap A = {} /\ U \cap S = {} /\ A \cap S = {}
       /\ NoDuplicates(part.unsupported)
       /\ NoDuplicates(part.already)
       /\ NoDuplicates(part.supported)
       /\ \A i \in 1..Len(cfiles) :
             /\ i \in U <=> ~SupportedFormat(i)
             /\ i \in A <=> /\ SupportedFormat(i)
                            /\ ~cforce
                            /\ <<cfiles[i].stem, "parquet">> \in DOMAIN diskAtCall
       /\ eligible = part.supported
       /\ Elems(converted) \subseteq S
       /\ Sources(ret) \subseteq S

MixedBatch ==
    /\ \E i \in 1..Len(cfiles) : SupportedFormat(i)
    /\ \E i \in 1..Len(cfiles) : ~SupportedFormat(i)

\* C13: every input file is in exactly one of the three lists (unsupported;
\* output exists and force is false; eligible), only eligible files are
\* converted, every returned artifact comes from an eligible file, and a call
\* on a batch with a supported and an unsupported file does not raise.
C13_PartitionAndNoRaise ==
    calls >= 1 =>
        /\ PartitionRespected
        /\ MixedBatch => cpc # "raised"

-----------------------------------------------------------------------------
(* Properties of the worker count *)

\* The smallest of the requested count, the number of files and the host's
\* CPU count.
SmallestOfThree ==
    CHOOSE m \in {wrequested, Len(wfiles), wcpus} :
        \A x \in {wrequested, Len(wfiles), wcpus} : m <= x

\* C25: for a non-empty file list and any requested count the effective
\* worker count is max(1, min(requested, file count, CPU count)): at least 1,
\* at most the number of files and at most the CPU count; worker processes
\* are started only when at least two files are eligible and the effective
\* count exceeds 1.
C25_WorkerClamp ==
    (wcall.called /\ wfiles # <<>>) =>
        /\ wcall.effective = (IF SmallestOfThree < 1 THEN 1 ELSE SmallestOfThree)
        /\ wcall.effective >= 1
        /\ wcall.effective <= Len(wfiles)
        /\ wcall.effective <= wcpus
        /\ wcall.max_workers > 0 =>
              /\ Cardinality({k \in 1..Len(wfiles) : wfiles[k]}) >= 2
              /\ wcall.effective > 1
              /\ wcall.max_workers = wcall.effective

\* C25 witness: a negative request was clamped to 1, so three supported files
\* were converted without a pool.
C25_Witness ==
    /\ wcall.called
    /\ wrequested < 0
    /\ Len(wfiles) = 3
    /\ \A k \in 1..3 : wfiles[k]
    /\ wcall.effective = 1
    /\ wcall.mode = "sequential"

-----------------------------------------------------------------------------
(* Sequential and parallel conversion *)

Uncaught(out) == out # "ok" /\ out \notin CaughtInLoop

\* The sequential loop of convert_dataset (line 1070-1077) on the eligible
\* files of the current call, as a function of the batch: it raises on the
\* first outcome it does not catch, otherwise it returns the artifacts of the
\* files that converted, in input order.
SequentialRaises ==
    \E k \in 1..Len(eligible) : Uncaught(ConvertOutcome(cfiles[eligible[k]]))

SequentialReturn ==
    LET oks == SelectSeq(eligible, LAMBDA i : ConvertOutcome(cfiles[i]) = "ok")
    IN [k \in 1..Len(oks) |-> Artifact(oks[k], cfiles[oks[k]])]

SameMultiset(s, t) ==
    /\ Len(s) = Len(t)
    /\ \A x \in Elems(s) \cup Elems(t) : Count(s, x) = Count(t, x)

DistinctOutputs ==
    \A j, k \in 1..Len(eligible) :
        j # k => OutputPaths(cfiles[eligible[j]]) \cap OutputPaths(cfiles[eligible[k]]) = {}

\* C29: on a batch of eligible files with pairwise-distinct output paths a
\* parallel call (no worker process dying) returns the same multiset of
\* artifacts, field by field and with the same originating-file record, as
\* the sequential loop returns on that batch; the sequential loop itself
\* returns exactly what SequentialReturn describes.
C29_ModesAgree ==
    /\ (cpc = "done" /\ ~ParallelMode) => ret = SequentialReturn
    /\ (cpc = "raised") => SequentialRaises
    /\ (cpc = "done" /\ ParallelMode /\ ~Crashed /\ DistinctOutputs) =>
          /\ ~SequentialRaises
          /\ SameMultiset(ret, SequentialReturn)

-----------------------------------------------------------------------------
(* Properties of convert_file *)

ConvertibleFormats == {"csv", "json", "excel", "tsv", "parquet"}

\* C14: convert_file on a file of a supported format either returns an
\* artifact whose conversion state is COMPLETED or raises ConversionError;
\* no other exception type leaves it.
C14_OnlyConversionError ==
    (lastConv.called /\ lastConv.file.format \in ConvertibleFormats) =>
        \/ /\ lastConv.outcome = "ok"
           /\ Len(lastConv.artifact) = 1
           /\ lastConv.artifact[1].conversion_status = "completed"
        \/ lastConv.outcome = "ConversionError"

\* C15: convert_file on a file of any other format raises
\* UnsupportedFormatError and leaves the output directory as it was.
C15_UnsupportedWritesNothing ==
    (lastConv.called /\ lastConv.file.format \notin ConvertibleFormats) =>
        /\ lastConv.outcome = "UnsupportedFormatError"
        /\ lastConv.artifact = <<>>
        /\ outdir = lastConv.before

\* C15 witness: convert_file has been called on a TXT file with an output
\* directory that already held files, and raised UnsupportedFormatError.
C15_Witness ==
    /\ lastConv.called
    /\ lastConv.file.format = "txt"
    /\ lastConv.outcome = "UnsupportedFormatError"
    /\ lastConv.before # <<>>
    /\ outdir = lastConv.before

\* The paths the most recent convert_file call wrote.
WrittenByCall == {p \in DOMAIN outdir : outdir[p] = fcalls}

MultiSheetConverted ==
    /\ lastConv.called
    /\ lastConv.file.format = "excel"
    /\ lastConv.file.sheets >= 2
    /\ lastConv.outcome = "ok"

\* C23: converting a workbook with n >= 2 sheets writes exactly n physical
\* .parquet files, all in <output_dir>/<workbook stem>/, and returns the first
\* sheet's artifact, whose metadata lists each of the n sheets with its
\* filename and row count.
C23_OneFilePerSheet ==
    MultiSheetConverted =>
        LET f == lastConv.file
            a == lastConv.artifact[1]
        IN /\ Cardinality(WrittenByCall) = f.sheets
           /\ \A p \in WrittenByCall : Len(p) = 3 /\ p[1] = f.stem /\ p[3] = "parquet"
           /\ a.path = SheetPath(f, 1)
           /\ Len(a.metadata) = f.sheets
           /\ \A k \in 1..f.sheets :
                 /\ a.metadata[k].sheet_name = SheetName(f, k)
                 /\ a.metadata[k].path \in WrittenByCall
                 /\ a.metadata[k].rows = Rows(f)

-----------------------------------------------------------------------------
(* Properties of chunked CSV conversion *)

RECURSIVE SumRows(_)
SumRows(chs) == IF chs = <<>> THEN 0 ELSE chs[1].rows + SumRows(Tail(chs))

\* The physical files the call has created: one per path a writer was opened on.
CsvFilesCreated == {writers[k].path : k \in 1..Len(writers)}

CsvEnded == csvpc \in {"done", "raised"}

\* C24: a chunked conversion over M >= 1 chunks opens at most one writer, at
\* the first chunk; when the call has ended, by returning or by raising, every
\* writer it opened is closed; when it returns, every chunk was written in
\* order through that one writer into one output file and the artifact's row
\* count is the sum of the chunks' row counts.
C24_OneWriterAllChunks ==
    Len(chunks) >= 1 =>
        /\ Len(writers) <= 1
        /\ \A k \in 1..Len(writers) : writers[k].openedAt = 1
        /\ CsvEnded => \A k \in 1..Len(writers) : writers[k].state = "closed"
        /\ csvpc = "done" =>
              /\ Len(writers) = 1
              /\ writers[1].written = [k \in 1..Len(chunks) |-> k]
              /\ CsvFilesCreated = {CsvOutputPath}
              /\ csvArtifact[1].rows = SumRows(chunks)

\* C24 witness: a conversion over three chunks with different row counts has
\* returned.
C24_Witness ==
    /\ csvpc = "done"
    /\ Len(chunks) = 3
    /\ chunks[1].rows # chunks[2].rows
    /\ csvArtifact[1].rows = SumRows(chunks)
    /\ writers[1].state = "closed"

-----------------------------------------------------------------------------
(* Properties of the retry wrapper *)

\* The exception class is one of the configured kinds (or a subclass of one).
Configured(kind) == \E cls \in rcfg.exceptions : IsInstance(kind, cls)

RaisedConfigured(a) == ~attempts[a].returns /\ Configured(attempts[a].kind)

ExceptionOf(a) == [returned |-> FALSE, kind |-> attempts[a].kind, attempt |-> a]

\* C16: with try count n, a callable raising a configured exception on every
\* attempt is invoked exactly n + 1 times and then the last attempt's
\* exception propagates unchanged (never earlier, never more attempts); an
\* attempt that returns ends the call with its value and is the last one.
C16_RetryBudget ==
    LET n == rcfg.tries
        all == \A a \in 1..Len(attempts) : RaisedConfigured(a)
    IN /\ Len(attempts) <= n + 1
       /\ (rpc = "raised" /\ all) =>
             /\ Len(attempts) = n + 1
             /\ rresult = ExceptionOf(Len(attempts))
       /\ (rpc # "idle" /\ all /\ Len(attempts) < n + 1) => rpc \in {"calling", "sleeping"}
       /\ (all /\ Len(attempts) = n + 1) => rpc = "raised"
       /\ \A a \in 1..Len(attempts) :
             attempts[a].returns =>
                 /\ a = Len(attempts)
                 /\ rpc = "returned"
                 /\ rresult = [returned |-> TRUE, kind |-> "", attempt |-> a]
       /\ rpc = "returned" => Len(attempts) > 0 /\ attempts[Len(attempts)].returns

\* C16 witness: with try count 2 the callable has raised a configured
\* exception three times and the third one has left the wrapper.
C16_Witness ==
    /\ rpc = "raised"
    /\ rcfg.tries = 2
    /\ Len(attempts) = 3
    /\ \A a \in 1..3 : RaisedConfigured(a)
    /\ rresult = ExceptionOf(3)
    /\ Len(sleeps) = 2

\* C17: an exception outside the configured kinds leaves the wrapper at
\* once: the attempt that raised it is the last one, no sleep follows it and
\* the exception itself is what the caller gets, whatever budget remains.
C17_ImmediatePropagation ==
    \A a \in 1..Len(attempts) :
        (~attempts[a].returns /\ ~Configured(attempts[a].kind)) =>
            /\ a = Len(attempts)
            /\ rpc = "raised"
            /\ rresult = ExceptionOf(a)
            /\ Len(sleeps) = a - 1

\* C17 witness: DatasetNotFoundError raised on the first attempt under
\* retry(exceptions=[KaggleAPIError, RateLimitError]) with budget left.
C17_Witness ==
    /\ rpc = "raised"
    /\ rcfg.exceptions = {"KaggleAPIError", "RateLimitError"}
    /\ rcfg.tries = 2
    /\ Len(attempts) = 1
    /\ attempts[1].kind = "DatasetNotFoundError"
    /\ rresult = ExceptionOf(1)
    /\ sleeps = <<>>

-----------------------------------------------------------------------------
(* Properties of format detection *)

\* models.py line 41-53: the values of FileFormat.
FileFormatValues ==
    {"csv", "json", "excel", "tsv", "parquet", "avro", "orc", "xml", "html", "txt", "other"}

\* The lower-cased suffix of the path detect_format was called on.
GivenSuffix == LowerText(Suffix(dpath))

\* Lower-case suffixes detect_format has a branch for, among those of the model.
RecognizedSuffixes ==
    { <<".", "c", "s", "v">>, <<".", "j", "s", "o", "n">>,
      <<".", "j", "s", "o", "n", "l">>, <<".", "x", "l", "s">>,
      <<".", "x", "l", "s", "x">>, <<".", "t", "s", "v">>,
      <<".", "p", "a", "r", "q", "u", "e", "t">>,
      <<".", "a", "v", "r", "o">>, <<".", "t", "x", "t">> }

\* The format the extension stands for, where the mapping names one.
ExpectedFormat(sfx) ==
    CASE sfx = <<".", "c", "s", "v">> -> "csv"
      [] sfx \in {<<".", "j", "s", "o", "n">>, <<".", "j", "s", "o", "n", "l">>} -> "json"
      [] sfx \in {<<".", "x", "l", "s", "x">>, <<".", "x", "l", "s">>} -> "excel"
      [] sfx = <<".", "t", "s", "v">> -> "tsv"
      [] sfx = <<".", "p", "a", "r", "q", "u", "e", "t">> -> "parquet"
      [] sfx \notin RecognizedSuffixes -> "other"
      [] OTHER -> "any"

-----------------------------------------------------------------------------
(* Properties of Config *)

\* C27: no sequence of set() calls on a Config instance, built from a file or
\* from defaults, changes the class-level DEFAULT_CONFIG, and after reset()
\* every key of the instance has its original default value again
\* (download.timeout is 600 after set('download.timeout', 999) and reset()).
C27_DefaultsUntouched ==
    /\ defaultSections = OriginalDefaults
    /\ lastConfigOp = "reset" =>
          Document(configTop, defaultSections, ownSections) = OriginalDefaults
-----------------------------------------------------------------------------
(* Properties of storage *)

CurrentDir == get_dataset_path(structure_template, sargs.name, sargs.ts)

CopiedByCall(d, c) == {fn \in DOMAIN sdirs[d].files : sdirs[d].files[fn] = c}

ManifestByCall(d, c) ==
    sdirs[d].manifest # NoManifest /\ sdirs[d].manifest[1].created_at = c

CopyFailed ==
    /\ spc = "raised"
    /\ sidx <= Len(sargs.artifacts)
    /\ ~sargs.artifacts[sidx].srcExists

\* C2: when a copy fails the call raises without writing a manifest and the
\* directory keeps none of the artifacts the call copied before the failure;
\* a manifest written by a call means every artifact of the call was copied.
C2_AllOrNothing ==
    /\ CopyFailed =>
          /\ ~ManifestByCall(CurrentDir, scalls)
          /\ CopiedByCall(CurrentDir, scalls) = {}
    /\ (sargs.artifacts # <<>> /\ ManifestByCall(CurrentDir, scalls)) =>
          \A k \in 1..Len(sargs.artifacts) :
              sargs.artifacts[k].filename \in CopiedByCall(CurrentDir, scalls)


-----------------------------------------------------------------------------
(* Properties of listing *)

\* The directory a record stands for.
RecordDir(r) == IF r.kind = "summary" THEN r.path ELSE r.dir

RecordDirs(recs) == {RecordDir(recs[k]) : k \in 1..Len(recs)}

\* Every directory under base_dir at the time of the listing came from a
\* store_parquet_files call that succeeded, and its manifest is as written.
AllStoredIntact ==
    \A d \in DOMAIN listing.dirs :
        HasManifest(listing.dirs, d) /\ listing.dirs[d].manifest[1].form = "ok"

\* The stored directories whose name contains the pattern case-insensitively
\* (all of them when no pattern is given).
StoredMatching(pattern) ==
    {d \in DOMAIN listing.dirs :
        pattern = "" \/ Contains(Lower(d[Len(d)].n), Lower(pattern))}

NewestFirst(recs) ==
    \A i, j \in 1..Len(recs) : i < j => SortKey(recs[i]).v >= SortKey(recs[j]).v

\* C19: when k datasets were stored successfully into k distinct directories,
\* under whichever path template the manager was built with, list_datasets
\* without limit returns exactly one record per stored directory whose name
\* contains the pattern (all k without a pattern), most recently created first.
C19_EveryStoredDatasetListed ==
    (listing.called /\ listing.limit = 0 /\ AllStoredIntact) =>
        /\ ~listing.raised
        /\ RecordDirs(listing.records) = StoredMatching(listing.pattern)
        /\ Len(listing.records) = Cardinality(StoredMatching(listing.pattern))
        /\ NewestFirst(listing.records)

\* The entries of <base>/kaggle at the time of the listing that pass the
\* pattern of the call.
ListedEntries ==
    {ChildPath(c) : c \in {x \in KaggleChildren(listing.dirs) :
                              listing.pattern = "" \/ NameMatches(listing.pattern, x)}}

\* metadata.json of d is absent, does not parse, or lacks a field read by
\* list_datasets.
ManifestUnusable(d) ==
    \/ ~HasManifest(listing.dirs, d)
    \/ listing.dirs[d].manifest[1].form \in {"unparseable", "no_storage"}

\* A minimal summary or an error-marked detail record.
Degraded(r) ==
    \/ r.kind \in {"metadata_missing", "error"}
    \/ r.kind = "summary" /\ r.created = Created(TRUE, 0)
         /\ r.dataset_ref = "" /\ r.file_count = 0

\* C20: whatever the metadata.json files of the dataset directories hold
\* (absent, unparseable, fields missing or of the wrong type), list_datasets
\* returns normally in summary and in detail mode, gives a minimal or
\* error-marked record for a directory whose manifest cannot be used, and
\* still returns a record for every other directory.
C20_NeverRaisesOnManifest ==
    listing.called =>
        /\ ~listing.raised
        /\ listing.limit = 0 => RecordDirs(listing.records) = ListedEntries
        /\ \A k \in 1..Len(listing.records) :
              ManifestUnusable(RecordDir(listing.records[k]))
                  => Degraded(listing.records[k])

-----------------------------------------------------------------------------
(* Properties of a successful store *)

\* The current store_parquet_files call has returned normally.
StoreSucceeded == scalls > 0 /\ spc = "done"

\* The resolved directory exists and holds a file named after every artifact
\* of the call and a manifest with one entry per artifact, in input order,
\* carrying the artifact's filename and rows.
StoredAsGiven ==
    /\ CurrentDir \in DOMAIN sdirs
    /\ \A k \in 1..Len(sargs.artifacts) :
          sargs.artifacts[k].filename \in DOMAIN sdirs[CurrentDir].files
    /\ sdirs[CurrentDir].manifest # NoManifest
    /\ LET pfs == sdirs[CurrentDir].manifest[1].parquet_files
       IN /\ Len(pfs) = Len(sargs.artifacts)
          /\ \A k \in 1..Len(pfs) :
                /\ pfs[k].filename = sargs.artifacts[k].filename
                /\ pfs[k].rows = sargs.artifacts[k].rows

\* C21 as stated: after any store_parquet_files call that returned normally
\* the resolved directory holds every artifact's file and a manifest listing
\* the artifacts in input order.
C21_StoredAsGiven == StoreSucceeded => StoredAsGiven

\* C21, for a call that was given at least one artifact: the resolved
\* directory holds every artifact's file and a manifest written by this call
\* listing the artifacts in input order with their filename and rows.
C21_StoredNonEmpty ==
    (StoreSucceeded /\ sargs.artifacts # <<>>) =>
        StoredAsGiven /\ ManifestByCall(CurrentDir, scalls)

C21_Witness ==
    /\ StoreSucceeded
    /\ Len(sargs.artifacts) = 2
    /\ sargs.artifacts[1].filename # sargs.artifacts[2].filename
    /\ StoredAsGiven
=============================================================================
